---------------------------- MODULE Spec2Model ----------------------------
(* A model of the AI news aggregator: the relevance scorer, the feed      *)
(* entry pipeline (dedup, per-feed cap, prioritizer), the two-tier cache  *)
(* and the retrying feed fetcher.                                         *)
(*                                                                        *)
(* Text is held as TLA+ strings; Len, SubSeq and \o act on them as on     *)
(* Python str. An Optional value is a sequence of length at most one:     *)
(* <<>> is None and <<v>> is v.                                           *)
(* Relevance scores are held in tenths (6 is 0.6): the code adds          *)
(* multiples of 0.2 and 0.1, and for the keyword counts possible (at most *)
(* 31) float rounding never moves such a sum across a tenth.              *)
EXTENDS Integers, Sequences, FiniteSets, TLC

VARIABLES
    \* get_article_relevance_score called on its own
    s_title, s_content, s_result,
    \* process_feed_entries: its arguments, its locals, its return value
    max_items_per_feed, total_max_items,
    p_pc,                \* "idle", "next_feed", "entries", "done", "raised"
    feeds_seen,          \* feed results consumed so far
    feed_name, items_from_feed,
    all_news_items, title_fingerprints, processed_links,
    prioritized_items,   \* None until process_feed_entries returns
    examined, outcome,   \* the entry the loop body last ran on, and what it did
    article_requests,    \* history: the links fetch_article_content has requested
    \* utils/fetch.py: the two cache tiers and the clock
    cache, cache_expiry, \* _cache and _cache_expiry, keyed by md5 of the URL
    cache_files,         \* the files of CACHE_DIR, keyed alike
    now,                 \* time.time(), in seconds
    c_call,              \* the cache call of Put or Get made last, with what it returned
    last_put,            \* history: per URL, the last cache_response call
    \* fetch_all_feeds: one fetch_rss_feed task per configured source
    t_pc,                \* "start", "acquire", "request", "sleep", "returned"
    retries, last_exception,
    attempts,            \* history: how each request a task has sent ended
    t_result,            \* what the task returned
    permits,             \* the free permits of the semaphore
    feed_results,        \* None until gather returns
    \* process_feed_entries called on the same feed results in two orders
    run_feeds, run_cap, run_limit,
    run_returns,         \* per order tried, what the call returned
    news_items           \* what get_ai_news returned; None until it returns

scoreVars == <<s_title, s_content, s_result>>
pipeVars == <<max_items_per_feed, total_max_items, p_pc, feeds_seen, feed_name,
              items_from_feed, all_news_items, title_fingerprints, processed_links,
              prioritized_items, examined, outcome, article_requests>>
cacheVars == <<cache, cache_expiry, cache_files, now, c_call, last_put>>
fetchVars == <<t_pc, retries, last_exception, attempts, t_result, permits, feed_results>>
runVars == <<run_feeds, run_cap, run_limit, run_returns>>
mainVars == <<news_items>>
vars == <<scoreVars, pipeVars, cacheVars, fetchVars, runVars, mainVars>>

None == <<>>
Some(v) == <<v>>

Min(a, b) == IF a <= b THEN a ELSE b
Max(a, b) == IF a >= b THEN a ELSE b

------------------------------------------------------------------------------
(* Text helpers: what str.lower() and the `in` operator do.                *)

UpperChars == "ABCDEFGHIJKLMNOPQRSTUVWXYZÓ"
LowerChars == "abcdefghijklmnopqrstuvwxyzó"

CharAt(s, i) == SubSeq(s, i, i)

\* upper-case character -> lower-case character
LowerTable ==
    [c \in { CharAt(UpperChars, i) : i \in 1..Len(UpperChars) } |->
        CharAt(LowerChars, CHOOSE i \in 1..Len(UpperChars) : CharAt(UpperChars, i) = c)]

\* str.lower() on one character
LowerChar(c) == IF c \in DOMAIN LowerTable THEN LowerTable[c] ELSE c

RECURSIVE lower(_)
\* str.lower(), by halves
lower(s) ==
    IF Len(s) = 0 THEN ""
    ELSE IF Len(s) = 1 THEN LowerChar(s)
    ELSE lower(SubSeq(s, 1, Len(s) \div 2)) \o lower(SubSeq(s, Len(s) \div 2 + 1, Len(s)))

\* Python's  k in s  for strings
Contains(k, s) ==
    /\ Len(k) <= Len(s)
    /\ \E i \in 1..(Len(s) - Len(k) + 1) : SubSeq(s, i, i + Len(k) - 1) = k

\* s[:n] for n >= 0
Prefix(s, n) == SubSeq(s, 1, Min(n, Len(s)))

RECURSIVE Pad(_)
\* n filler characters that belong to no keyword
Pad(n) ==
    IF n = 0 THEN ""
    ELSE IF n = 1 THEN "."
    ELSE Pad(n \div 2) \o Pad(n - n \div 2)

\* what one step of a left-to-right scan emits, and the position the scan resumes at
Emit(text, resume) == [out |-> text, next |-> resume]

------------------------------------------------------------------------------
(* config/feeds.py *)

AI_KEYWORDS == <<
    "ai", "artificial intelligence", "machine learning", "deep learning",
    "neural network", "nlp", "natural language", "computer vision",
    "ml", "generative ai", "llm", "gpt", "chatgpt", "gemini", "claude",
    "stable diffusion", "dall-e", "midjourney", "anthropic", "openai",
    "ml ops", "mlops", "rag", "retrieval", "embedding", "transformer",
    "fine-tuning", "fine tune", "inference", "data science", "prompt" >>

EXCLUDE_KEYWORDS == <<
    "sponsor", "sponsored", "advertisement", "promoción",
    "webinar", "register now", "limited time", "discount" >>

------------------------------------------------------------------------------
(* utils/parsing.py: get_article_relevance_score *)

\* the list comprehension  [keyword for keyword in AI_KEYWORDS if keyword.lower() in text_lower]
MatchedKeywords(text_lower) ==
    { i \in 1..Len(AI_KEYWORDS) : Contains(lower(AI_KEYWORDS[i]), text_lower) }

\* the title compared with each keyword by equality instead of  in
HasExcludedKeyword_Equal(title_lower) ==
    \E i \in 1..Len(EXCLUDE_KEYWORDS) : lower(EXCLUDE_KEYWORDS[i]) = title_lower

HasExcludedKeyword(title_lower) ==
    \E i \in 1..Len(EXCLUDE_KEYWORDS) : Contains(lower(EXCLUDE_KEYWORDS[i]), title_lower)

\* min(0.6, len(title_keywords) * 0.2), in tenths
TitleContribution(n) == Min(6, n * 2)

\* min(0.4, len(content_keywords) * 0.1), in tenths
ContentContribution(n) == Min(4, n)

\* is_relevant = score > 0.1
RelevanceThreshold(score) == score > 1

\* a body of exactly 100 characters counted too
ContentCounts_AtLeast100(content) == content # None /\ Len(content[1]) >= 100

\* the guard  if content and len(content) > 100
ContentCounts(content) == content # None /\ Len(content[1]) > 100

get_article_relevance_score(title, content) ==
    IF Len(title) = 0 THEN [relevant |-> FALSE, score |-> 0]
    ELSE LET title_lower == lower(title) IN
         IF HasExcludedKeyword(title_lower) THEN [relevant |-> FALSE, score |-> 0]
         ELSE LET t == Cardinality(MatchedKeywords(title_lower))
                  b == IF ContentCounts(content)
                       THEN Cardinality(MatchedKeywords(lower(content[1])))
                       ELSE 0
                  score == TitleContribution(t) + ContentContribution(b)
              IN [relevant |-> RelevanceThreshold(score), score |-> Min(10, score)]

is_relevant_article(title, content) == get_article_relevance_score(title, content).relevant

------------------------------------------------------------------------------
(* utils/parsing.py: clean_title. Each re.sub is a left-to-right scan, as  *)
(* the regex engine does it. The modelled titles hold no line breaks, so   *)
(* "." matches every character and "$" only the end of the title.          *)

IsSpace(c) == c \in {" ", "\t"}

WordChars == "abcdefghijklmnopqrstuvwxyzóABCDEFGHIJKLMNOPQRSTUVWXYZÓ0123456789_"

\* the class \w
IsWord(c) == \E i \in 1..Len(WordChars) : CharAt(WordChars, i) = c

\* the class [:\s\-\[\]\|]
IsPrefixSeparator(c) == IsSpace(c) \/ c \in {":", "-", "[", "]", "|"}

\* how many characters \s* takes at position i
SpaceRun(s, i) ==
    LET stops == { j \in i..(Len(s) + 1) : j = Len(s) + 1 \/ ~IsSpace(CharAt(s, j)) }
    IN IF i > Len(s) THEN 0 ELSE (CHOOSE j \in stops : \A k \in stops : j <= k) - i

\* how many characters [:\s\-\[\]\|]* takes at position i
SeparatorRun(s, i) ==
    LET stops == { j \in i..(Len(s) + 1) : j = Len(s) + 1 \/ ~IsPrefixSeparator(CharAt(s, j)) }
    IN IF i > Len(s) THEN 0 ELSE (CHOOSE j \in stops : \A k \in stops : j <= k) - i

\* whether the literal w stands at position i of s (re.IGNORECASE when ci)
LiteralAt(s, i, w, ci) ==
    /\ i >= 1
    /\ i + Len(w) - 1 <= Len(s)
    /\ IF ci THEN lower(SubSeq(s, i, i + Len(w) - 1)) = lower(w)
             ELSE SubSeq(s, i, i + Len(w) - 1) = w

\* the first position >= i where the literal w stands, 0 when there is none
FirstLiteralFrom(s, w, i) ==
    LET hits == { j \in i..Len(s) : LiteralAt(s, j, w, FALSE) }
    IN IF hits = {} THEN 0 ELSE CHOOSE j \in hits : \A k \in hits : j <= k

\* re.sub(r'<[^>]+>', '', title)
StripTagStep(s, i) ==
    LET close == IF CharAt(s, i) = "<" THEN FirstLiteralFrom(s, ">", i + 1) ELSE 0
    IN IF close >= i + 2 THEN Emit("", close + 1) ELSE Emit(CharAt(s, i), i + 1)

TitlePrefixes == << "Breaking", "Update", "News", "Exclusive", "Just In", "Watch", "Read" >>

\* re.sub(r'^(Breaking|Update|News|Exclusive|Just In|Watch|Read)[:\s\-\[\]\|]+', '', title, flags=re.IGNORECASE)
StripPrefix(s) ==
    LET hits == { k \in 1..Len(TitlePrefixes) :
                    /\ LiteralAt(s, 1, TitlePrefixes[k], TRUE)
                    /\ SeparatorRun(s, Len(TitlePrefixes[k]) + 1) >= 1 }
    IN IF hits = {} THEN s
       ELSE LET k == CHOOSE k \in hits : \A h \in hits : k <= h
                w == TitlePrefixes[k]
            IN SubSeq(s, Len(w) + SeparatorRun(s, Len(w) + 1) + 1, Len(s))

TitleSuffixes == << "Read More", "Subscribe", "Full Article" >>

\* where  \s*[\-\|]\s*  started at i ends: the position after it, 0 when it does not match
AfterDash(s, i) ==
    LET a == i + SpaceRun(s, i)
    IN IF a <= Len(s) /\ CharAt(s, a) \in {"-", "|"}
       THEN a + 1 + SpaceRun(s, a + 1)
       ELSE 0

\* s up to the leftmost position where a match of a to-the-end pattern starts
CutAtFirst(s, starts) ==
    IF starts = {} THEN s
    ELSE SubSeq(s, 1, (CHOOSE i \in starts : \A j \in starts : i <= j) - 1)

\* re.sub(r'\s*[\-\|]\s*(Read More|Subscribe|Full Article).*$', '', title, flags=re.IGNORECASE)
StripSuffix(s) ==
    CutAtFirst(s, { i \in 1..Len(s) :
        /\ AfterDash(s, i) # 0
        /\ \E k \in 1..Len(TitleSuffixes) : LiteralAt(s, AfterDash(s, i), TitleSuffixes[k], TRUE) })

\* whether s from position b to its end is  \w+\.com  or  \w+\.org
IsDomainToEnd(s, b) ==
    /\ Len(s) - b + 1 >= 5
    /\ \/ LiteralAt(s, Len(s) - 3, ".com", TRUE)
       \/ LiteralAt(s, Len(s) - 3, ".org", TRUE)
    /\ \A j \in b..(Len(s) - 4) : IsWord(CharAt(s, j))

\* re.sub(r'\s*[\-\|]\s*(\w+\.com|\w+\.org)$', '', title, flags=re.IGNORECASE)
StripDomain(s) ==
    CutAtFirst(s, { i \in 1..Len(s) :
        /\ AfterDash(s, i) # 0
        /\ IsDomainToEnd(s, AfterDash(s, i)) })

\* where  \s*<open>.*?<close>\s*  started at i ends: the position after it, 0 when it does not match
AfterTemplate(s, i, open, close) ==
    LET a == i + SpaceRun(s, i)
    IN IF ~LiteralAt(s, a, open, FALSE) THEN 0
       ELSE LET c == FirstLiteralFrom(s, close, a + Len(open))
            IN IF c = 0 THEN 0
               ELSE c + Len(close) + SpaceRun(s, c + Len(close))

\* re.sub(r'\s*\{\{.*?\}\}\s*', ' ', title)
BraceTemplateStep(s, i) ==
    LET e == AfterTemplate(s, i, "{{", "}}")
    IN IF e # 0 THEN Emit(" ", e) ELSE Emit(CharAt(s, i), i + 1)

\* re.sub(r'\s*\$\{.*?\}\s*', ' ', title)
DollarTemplateStep(s, i) ==
    LET e == AfterTemplate(s, i, "${", "}")
    IN IF e # 0 THEN Emit(" ", e) ELSE Emit(CharAt(s, i), i + 1)

\* re.sub(r'%20', ' ', title)
EscapedSpaceStep(s, i) ==
    IF LiteralAt(s, i, "%20", FALSE) THEN Emit(" ", i + 3) ELSE Emit(CharAt(s, i), i + 1)

\* re.sub(r'%\w{2}', '', title)
EscapeStep(s, i) ==
    IF /\ CharAt(s, i) = "%"
       /\ i + 2 <= Len(s)
       /\ IsWord(CharAt(s, i + 1))
       /\ IsWord(CharAt(s, i + 2))
    THEN Emit("", i + 3)
    ELSE Emit(CharAt(s, i), i + 1)

\* re.sub(r'\s+', ' ', title)
SpaceStep(s, i) ==
    IF IsSpace(CharAt(s, i)) THEN Emit(" ", i + SpaceRun(s, i)) ELSE Emit(CharAt(s, i), i + 1)

\* str.replace("www.", "")
RemoveWwwStep(s, i) ==
    IF LiteralAt(s, i, "www.", FALSE) THEN Emit("", i + 4) ELSE Emit(CharAt(s, i), i + 1)

\* the step of the named substitution at position i of s
ScanStep(sub, s, i) ==
    CASE sub = "tags" -> StripTagStep(s, i)
      [] sub = "brace templates" -> BraceTemplateStep(s, i)
      [] sub = "dollar templates" -> DollarTemplateStep(s, i)
      [] sub = "escaped space" -> EscapedSpaceStep(s, i)
      [] sub = "escapes" -> EscapeStep(s, i)
      [] sub = "spaces" -> SpaceStep(s, i)
      [] sub = "www" -> RemoveWwwStep(s, i)

RECURSIVE ScanSteps(_, _, _, _)
\* k steps of the scan of s from position i: what they emit and where they stop
ScanSteps(sub, s, i, k) ==
    IF i > Len(s) THEN Emit("", i)
    ELSE IF k <= 1 THEN ScanStep(sub, s, i)
    ELSE LET a == ScanSteps(sub, s, i, k \div 2)
             b == ScanSteps(sub, s, a.next, k - k \div 2)
         IN Emit(a.out \o b.out, b.next)

\* re.sub and str.replace over s: the steps from the first position to the end
Scan(sub, s) == ScanSteps(sub, s, 1, Len(s)).out

StripTags(s) == Scan("tags", s)
ReplaceBraceTemplates(s) == Scan("brace templates", s)
ReplaceDollarTemplates(s) == Scan("dollar templates", s)
ReplaceEscapedSpace(s) == Scan("escaped space", s)
StripEscapes(s) == Scan("escapes", s)
CollapseSpaces(s) == Scan("spaces", s)

\* str.strip() of a text whose whitespace runs are already single spaces
Strip(s) ==
    LET a == IF Len(s) >= 1 /\ IsSpace(CharAt(s, 1)) THEN 2 ELSE 1
        b == IF Len(s) >= a /\ IsSpace(CharAt(s, Len(s))) THEN Len(s) - 1 ELSE Len(s)
    IN SubSeq(s, a, b)

clean_title(title) ==
    IF Len(title) = 0 THEN ""
    ELSE Strip(CollapseSpaces(StripEscapes(ReplaceEscapedSpace(
             ReplaceDollarTemplates(ReplaceBraceTemplates(
                 StripDomain(StripSuffix(StripPrefix(StripTags(title))))))))))

------------------------------------------------------------------------------
(* utils/parsing.py: get_source_display_name *)

SOURCE_NAME_MAPPING == <<
    <<"blog.research.google", "Google AI Blog">>,
    <<"www.technologyreview.com", "MIT Tech Review">>,
    <<"venturebeat.com", "VentureBeat">>,
    <<"arstechnica.com", "Ars Technica">>,
    <<"www.zdnet.com", "ZDNet">>,
    <<"www.anthropic.com", "Anthropic">>,
    <<"stability.ai", "Stability AI">>,
    <<"blog.google", "Google Blog">>,
    <<"spectrum.ieee.org", "IEEE Spectrum">>,
    <<"aitrends.com", "AI Trends">>,
    <<"www.unite.ai", "Unite.AI">>,
    <<"aijourn.com", "The AI Journal">>,
    <<"aibusiness.com", "AI Business">>,
    <<"www.analyticsinsight.net", "Analytics Insight">>,
    <<"www.kdnuggets.com", "KDnuggets">>,
    <<"towardsdatascience.com", "Towards Data Science">>,
    <<"medium.com", "Medium">>,
    <<"openai.com", "OpenAI">>,
    <<"deepmind.com", "DeepMind">> >>

\* urlparse(url).hostname for a link of the form scheme://host/path (lowercased), None without "://"
Hostname(url) ==
    LET p == FirstLiteralFrom(url, "://", 1)
    IN IF p = 0 THEN None
       ELSE LET slash == FirstLiteralFrom(url, "/", p + 3)
                host == SubSeq(url, p + 3, IF slash = 0 THEN Len(url) ELSE slash - 1)
            IN IF host = "" THEN None ELSE Some(lower(host))

UpperChar(c) ==
    IF \E i \in 1..Len(LowerChars) : CharAt(LowerChars, i) = c
    THEN CharAt(UpperChars, CHOOSE i \in 1..Len(LowerChars) : CharAt(LowerChars, i) = c)
    ELSE c

\* str.capitalize()
Capitalize(s) ==
    IF Len(s) = 0 THEN "" ELSE UpperChar(CharAt(s, 1)) \o lower(SubSeq(s, 2, Len(s)))

\* hostname.replace("www.", "").split('.')[0].capitalize()
HostLabel(hostname) ==
    LET bare == Scan("www", hostname)
        dot == FirstLiteralFrom(bare, ".", 1)
    IN Capitalize(IF dot = 0 THEN bare ELSE SubSeq(bare, 1, dot - 1))

\* the mapping entries whose domain occurs in the hostname
MappingHits(hostname) ==
    { k \in 1..Len(SOURCE_NAME_MAPPING) : Contains(SOURCE_NAME_MAPPING[k][1], hostname) }

\* lines 103-109, for the hostname urlparse found
DisplayNameOf(hostname) ==
    IF hostname = None THEN "Unknown Source"
    ELSE IF MappingHits(hostname[1]) # {}
    THEN SOURCE_NAME_MAPPING[CHOOSE k \in MappingHits(hostname[1]) :
                                \A h \in MappingHits(hostname[1]) : k <= h][2]
    ELSE HostLabel(hostname[1])

get_source_display_name(url) == DisplayNameOf(Hostname(url))

------------------------------------------------------------------------------
(* utils/parsing.py: extract_published_datetime, translate_and_summarize   *)

(* A date field of an entry is held by what parsing it gives: nothing      *)
(* (every parser rejects it), a timestamp with time-zone information       *)
(* (strptime with %z, or dateutil on a string that names a zone), or one   *)
(* without (dateutil on a string that names none, or a value with a        *)
(* timetuple). A timestamp is held by its age in hours when the            *)
(* prioritizer reads the clock; a negative age lies in the future.         *)
Unparseable == [parsed |-> FALSE, aware |-> FALSE, age |-> 0]
Aware(age) == [parsed |-> TRUE, aware |-> TRUE, age |-> age]
Naive(age) == [parsed |-> TRUE, aware |-> FALSE, age |-> age]

\* the first date field, in date_fields order, that parses
extract_published_datetime(entry) ==
    LET ok == { i \in 1..Len(entry.dates) : entry.dates[i].parsed }
    IN IF ok = {} THEN None
       ELSE Some(entry.dates[CHOOSE i \in ok : \A j \in ok : i <= j])

\* OPENAI_API_KEY is the empty string: the API branch is never taken
translate_and_summarize(text) ==
    IF Len(text) < 50 THEN <<"insufficient content">>
    ELSE <<"api key needed", Len(text)>>

------------------------------------------------------------------------------
(* The feed entries the runs draw from, and what the article pages serve.  *)

Entry(link, title, summary, description, published, dates) ==
    [link |-> link, title |-> title, summary |-> summary, description |-> description,
     published |-> published, dates |-> dates]

SharedLink == "https://openai.com/blog/new-model"

Entries == {
    Entry(SharedLink,
          "OpenAI releases new model with longer context windows for developers",
          "", "", "Mon, 02 Nov 2026 08:00:00 +0000", <<Aware(8)>>),
    \* the same first 50 characters but for case, another link
    Entry("https://aitrends.com/openai-model",
          "Openai Releases New Model With Longer Context Windows and lower prices",
          "Short note.", "", "", <<>>),
    \* the same link, another title
    Entry(SharedLink,
          "Breaking: New LLM model beats GPT-4 benchmark - TechSite.com",
          "", "", "2026-11-01T00:00:00+0000", <<Aware(40)>>),
    \* relevant by its body only; its date names no time zone
    Entry("https://example.org/chips",
          "Quarterly chip market report",
          "", Pad(93) \o " llm gpt", "yesterday", <<Unparseable, Naive(8)>>),
    Entry("https://example.org/webinar",
          "Webinar: Register now for our AI summit", "", "", "", <<>>),
    Entry("", "ChatGPT adds voice mode", "", "", "", <<>>),
    Entry("https://example.org/short", "News: AI", "", "", "", <<>>),
    \* ties on composite score with the entry of 40 hours above
    Entry("https://deepmind.com/blog/gemini",
          "<b>Gemini</b> and Claude ship updates", "", "", "", <<Aware(40)>>),
    \* dated in the future
    Entry("https://www.technologyreview.com/claude",
          "Claude gets memory for long chats", "", "", "", <<Aware(-8)>>) }

\* a time.struct_time and a list of the same nine fields
StructTime(fields) == [type |-> "struct_time", fields |-> fields]
List(fields) == [type |-> "list", fields |-> fields]

\* the keys under which feedparser stores a time.struct_time
StructTimeKeys == {"published_parsed", "updated_parsed"}

\* entries as feedparser gives them: one without a date, one with a parsed date
UndatedEntry ==
    [title |-> "Notes on LLM evaluation", link |-> "https://a.example/notes"]
DatedEntry ==
    [title |-> "OpenAI ships a new model", link |-> "https://a.example/openai",
     published |-> "Mon, 02 Nov 2026 08:00:00 +0000",
     published_parsed |-> StructTime(<<2026, 11, 2, 8, 0, 0, 0, 306, 0>>)]

\* an entry as the loop body and extract_published_datetime read it: entry.get with
\* its defaults (lines 395, 400, 405-406) and the one date string of the entries above
EntryRead(e) ==
    Entry(e.link, e.title, "", "",
          IF "published" \in DOMAIN e THEN e.published ELSE "",
          IF "published" \in DOMAIN e THEN <<Aware(8)>> ELSE <<>>)

FetchedEntries == { EntryRead(UndatedEntry), EntryRead(DatedEntry) }

\* an entry with no keyword in its title and two in its description, and no date
BodyOnlyEntry ==
    Entry("https://example.org/cloud", "Quarterly cloud market report",
          "", Pad(93) \o " llm gpt", "", <<>>)

AllEntries == Entries \cup FetchedEntries \cup {BodyOnlyEntry}

\* how the one request of fetch_article_content for a link ends (lines 132-134, 184-186)
ArticleResponse(link) ==
    IF link \in {SharedLink, "https://www.technologyreview.com/claude",
                 "https://aitrends.com/openai-model"} THEN "200"
    ELSE IF link = "https://example.org/chips" THEN "HTTP 503"
    ELSE IF link = "https://deepmind.com/blog/gemini" THEN "TimeoutError"
    ELSE "ClientError"

\* the text found in the page of a 200 response (lines 136-178)
ExtractedText(link) ==
    IF link = "https://aitrends.com/openai-model" THEN "Subscribe to read." ELSE Pad(60)

\* what fetch_article_content returns for a link: a body, or "" (no page, or too little text)
ArticleText(link) ==
    IF ArticleResponse(link) # "200" THEN ""
    ELSE IF Len(ExtractedText(link)) < 50 THEN ""
    ELSE Prefix(ExtractedText(link), 8000)

\* the scorer on a title alone, kept for the titles of Entries
TitleScores ==
    [t \in { clean_title(e.title) : e \in Entries } |-> get_article_relevance_score(t, None)]

\* get_article_relevance_score(title)
TitleRelevance(title) ==
    IF title \in DOMAIN TitleScores THEN TitleScores[title]
    ELSE get_article_relevance_score(title, None)

------------------------------------------------------------------------------
(* utils/parsing.py: prioritize_articles. Composite scores are held in     *)
(* sixteenths of a point, which makes both recency formulas exact for      *)
(* ages in whole hours.                                                    *)

TrustedSources == << "google", "openai", "anthropic", "deepmind", "microsoft", "mit", "ieee", "arxiv" >>

\* relevance_score * 40, the relevance taken from the title alone
RelevancePoints(article) == TitleRelevance(article.title).score * 4 * 16

\* recency points that take five points off an item without a date
RecencyPoints_Penalty(article) ==
    IF article.published_datetime = None THEN -5 * 16
    ELSE LET age_hours == article.published_datetime[1].age
         IN IF age_hours < 24 THEN Max(0, 30 * 16 - age_hours * 20)
            ELSE IF age_hours < 72 THEN Max(0, 15 * 16 - (age_hours - 24) * 5)
            ELSE 0

\* max(0, 30 - age_hours/24*30) under 24 hours, max(0, 15 - (age_hours-24)/48*15) under 72
RecencyPoints(article) ==
    IF article.published_datetime = None THEN 0
    ELSE LET age_hours == article.published_datetime[1].age
         IN IF age_hours < 24 THEN Max(0, 30 * 16 - age_hours * 20)
            ELSE IF age_hours < 72 THEN Max(0, 15 * 16 - (age_hours - 24) * 5)
            ELSE 0

TrustedPoints(article) ==
    IF \E k \in 1..Len(TrustedSources) : Contains(TrustedSources[k], lower(article.source_name))
    THEN 15 * 16 ELSE 0

CompositeScore(article) ==
    RelevancePoints(article) + RecencyPoints(article) + TrustedPoints(article)

\* datetime.now(timezone.utc) - published_datetime raises TypeError on a timestamp without a zone
SubtractionRaises(article) ==
    article.published_datetime # None /\ ~article.published_datetime[1].aware

\* the article dict with the scorer's 0.0-1.0 score in the field, in sixteenths
Scored_RelevanceOnly(article) ==
    [title |-> article.title, original_link |-> article.original_link,
     source_name |-> article.source_name, published |-> article.published,
     published_datetime |-> article.published_datetime, feed_name |-> article.feed_name,
     summary |-> article.summary, korean_summary |-> article.korean_summary,
     relevance_score |-> (TitleRelevance(article.title).score * 16) \div 10]

\* the article dict after article["relevance_score"] = score
Scored(article) ==
    [title |-> article.title, original_link |-> article.original_link,
     source_name |-> article.source_name, published |-> article.published,
     published_datetime |-> article.published_datetime, feed_name |-> article.feed_name,
     summary |-> article.summary, korean_summary |-> article.korean_summary,
     relevance_score |-> CompositeScore(article)]

\* x put into a list sorted by non-increasing score, after the articles of equal score
InsertByScore(sorted, x) ==
    LET k == Cardinality({ i \in 1..Len(sorted) : sorted[i].relevance_score >= x.relevance_score })
    IN SubSeq(sorted, 1, k) \o <<x>> \o SubSeq(sorted, k + 1, Len(sorted))

RECURSIVE SortedByScore(_)
\* sorted(articles, key=lambda x: x.get("relevance_score", 0), reverse=True): stable
SortedByScore(articles) ==
    IF Len(articles) = 0 THEN <<>>
    ELSE InsertByScore(SortedByScore(SubSeq(articles, 1, Len(articles) - 1)),
                       articles[Len(articles)])

\* the slice s[:n]: a negative n counts from the end
SliceTo(s, n) ==
    IF n >= 0 THEN SubSeq(s, 1, Min(n, Len(s)))
    ELSE SubSeq(s, 1, Max(Len(s) + n, 0))

\* the articles as the scoring loop leaves them
ScoredArticles(articles) == [i \in 1..Len(articles) |-> Scored(articles[i])]

prioritize_articles(articles, max_items) ==
    SliceTo(SortedByScore(ScoredArticles(articles)), max_items)

PrioritizeRaises(articles) == \E i \in 1..Len(articles) : SubtractionRaises(articles[i])

------------------------------------------------------------------------------
(* utils/parsing.py: process_feed_entries.                                 *)
(*                                                                         *)
(* The feed results are read as the loops read them: each step consumes    *)
(* the next feed result or the next entry of the current feed, drawn from  *)
(* FeedNames and Entries, so a run stands for every list of feed results   *)
(* of at most MaxFeeds feeds, with entries of Entries in any number and    *)
(* order. A feed result carries the name stored in it: fetch_rss_feed      *)
(* returns a cached payload as it was stored (fetch.py:106-108), with the  *)
(* name of the source that stored it, so two results of one run may carry  *)
(* the same name.                                                          *)

MaxFeeds == 2

FeedNames == {"Feed A", "Feed B"}

\* the values of --max-per-feed and --max-total tried
Caps == {1, 2}
Limits == {-1, 0, 2, 30}

\* hashlib.md5(...).hexdigest(), taken as injective
md5(text) == <<"md5", text>>

\* the fingerprint taken without lowercasing the title
title_fingerprint_CaseSensitive(title) == md5(Prefix(title, 50))

\* hashlib.md5(title.lower()[:50].encode()).hexdigest()
title_fingerprint(title) == md5(Prefix(lower(title), 50))

\* the membership test on processed_links left out
LinkSeen_Never(original_link, links) == FALSE

\* original_link in processed_links
LinkSeen(original_link, links) == original_link \in links

\* entry.get("summary", "") or entry.get("description", "")
SummaryOf(entry) == IF entry.summary # "" THEN entry.summary ELSE entry.description

\* article_content or summary
ArticleContent(page, summary) == IF page = "" THEN summary ELSE page

\* the dict appended to all_news_items (lines 417-445), for the cleaned title
NewsItem(entry, title, name) ==
    [title |-> title,
     original_link |-> entry.link,
     source_name |-> get_source_display_name(entry.link),
     published |-> entry.published,
     published_datetime |-> extract_published_datetime(entry),
     feed_name |-> name,
     summary |-> Prefix(SummaryOf(entry), 500),
     korean_summary |->
         IF ArticleContent(ArticleText(entry.link), SummaryOf(entry)) = ""
         THEN <<"no summary">>
         ELSE translate_and_summarize(ArticleContent(ArticleText(entry.link), SummaryOf(entry)))]

\* what the loop body computes from an entry alone, for the cleaned title
EntryFacts(entry, title) ==
    [title |-> title,
     fingerprint |-> title_fingerprint(title),
     relevant |-> is_relevant_article(title, Some(SummaryOf(entry))),
     item |-> NewsItem(entry, title, "")]

\* the test that breaks the inner loop one item late
CapIsReached_OneLate(count, cap) == count > cap

\* if items_from_feed >= max_items_per_feed: break (lines 392-393)
CapIsReached(count, cap) == count >= cap

\* the loop body's pure part, once per entry of Entries
Examined == [e \in AllEntries |-> EntryFacts(e, clean_title(e.title))]

\* the order of the loop body's checks (lines 395-415), given what it computed and the two sets
Decide(entry, facts, links, fingerprints) ==
    IF entry.link = "" THEN "no link"
    ELSE IF LinkSeen(entry.link, links) THEN "link seen"
    ELSE IF facts.title = "" \/ Len(facts.title) < 10 THEN "short title"
    ELSE IF facts.fingerprint \in fingerprints THEN "title seen"
    ELSE IF ~facts.relevant THEN "not relevant"
    ELSE "admitted"

\* what the loop body does with an entry
LoopOutcome(entry, links, fingerprints) == Decide(entry, Examined[entry], links, fingerprints)

\* nothing collected yet (lines 371-373)
NothingCollected == [items |-> <<>>, links |-> {}, fingerprints |-> {}]

\* the inner loop over one feed's entries from position i, `taken` items in (lines 391-450)
RECURSIVE FeedLoop(_, _, _, _, _, _)
FeedLoop(entries, i, name, cap, taken, acc) ==
    IF i > Len(entries) \/ CapIsReached(taken, cap) THEN acc
    ELSE IF LoopOutcome(entries[i], acc.links, acc.fingerprints) = "admitted"
    THEN FeedLoop(entries, i + 1, name, cap, taken + 1,
                  [items |-> Append(acc.items,
                                    [Examined[entries[i]].item EXCEPT !.feed_name = name]),
                   links |-> acc.links \cup {entries[i].link},
                   fingerprints |-> acc.fingerprints \cup {Examined[entries[i]].fingerprint}])
    ELSE FeedLoop(entries, i + 1, name, cap, taken, acc)

\* the outer loop over the feed results from position k; an Exception is left out
\* (lines 376-389)
RECURSIVE FeedsLoop(_, _, _, _)
FeedsLoop(results, k, cap, acc) ==
    IF k > Len(results) THEN acc
    ELSE IF results[k].exception # "" THEN FeedsLoop(results, k + 1, cap, acc)
    ELSE FeedsLoop(results, k + 1, cap,
                   FeedLoop(results[k].entries, 1, results[k].name, cap, 0, acc))

\* process_feed_entries(feed_results, max_items_per_feed, total_max_items) (lines 368-455)
process_feed_entries(results, cap, limit) ==
    IF PrioritizeRaises(FeedsLoop(results, 1, cap, NothingCollected).items)
    THEN [exception |-> "TypeError", value |-> <<>>]
    ELSE [exception |-> "",
          value |-> prioritize_articles(FeedsLoop(results, 1, cap, NothingCollected).items,
                                        limit)]

\* a dict with no key
EmptyDict == [key \in {} |-> None]

NoCall == [op |-> "none", url |-> "", result |-> None]

\* no cache call made, nothing cached, no fetch task started
CacheIdle ==
    /\ cache = EmptyDict /\ cache_expiry = EmptyDict /\ cache_files = EmptyDict
    /\ now = 0 /\ c_call = NoCall /\ last_put = EmptyDict

FetchIdle ==
    /\ t_pc = <<>> /\ retries = <<>> /\ last_exception = <<>> /\ attempts = <<>>
    /\ t_result = <<>> /\ permits = 0 /\ feed_results = None

RunIdle == run_feeds = <<>> /\ run_cap = 0 /\ run_limit = 0 /\ run_returns = EmptyDict

\* get_ai_news has not returned
MainIdle == news_items = None

PipeIdle ==
    /\ max_items_per_feed = 0 /\ total_max_items = 0
    /\ p_pc = "idle" /\ feeds_seen = 0 /\ feed_name = "" /\ items_from_feed = 0
    /\ all_news_items = <<>> /\ title_fingerprints = {} /\ processed_links = {}
    /\ prioritized_items = None /\ examined = None /\ outcome = "idle"
    /\ article_requests = <<>>

ScoreIdle == s_title = "" /\ s_content = None /\ s_result = None

PipeInit ==
    /\ max_items_per_feed \in Caps
    /\ total_max_items \in Limits
    /\ p_pc = "next_feed" /\ feeds_seen = 0 /\ feed_name = "" /\ items_from_feed = 0
    /\ all_news_items = <<>> /\ title_fingerprints = {} /\ processed_links = {}
    /\ prioritized_items = None /\ examined = None /\ outcome = "start"
    /\ article_requests = <<>>
    /\ ScoreIdle /\ CacheIdle /\ FetchIdle /\ RunIdle /\ MainIdle

\* a feed result that is an Exception is left out of valid_feed_results (lines 376-380)
SkipFailedFeed ==
    /\ p_pc = "next_feed" /\ feeds_seen < MaxFeeds
    /\ feeds_seen' = feeds_seen + 1
    /\ examined' = None /\ outcome' = "feed failed"
    /\ UNCHANGED <<scoreVars, cacheVars, fetchVars, runVars, mainVars>>
    /\ UNCHANGED <<max_items_per_feed, total_max_items, p_pc, feed_name, items_from_feed,
                   all_news_items, title_fingerprints, processed_links, prioritized_items,
                   article_requests>>

\* the outer loop takes the next feed result (lines 387-389)
StartFeed(name) ==
    /\ p_pc = "next_feed" /\ feeds_seen < MaxFeeds
    /\ feeds_seen' = feeds_seen + 1
    /\ feed_name' = name /\ items_from_feed' = 0
    /\ p_pc' = "entries"
    /\ examined' = None /\ outcome' = "feed start"
    /\ UNCHANGED <<scoreVars, cacheVars, fetchVars, runVars, mainVars>>
    /\ UNCHANGED <<max_items_per_feed, total_max_items, all_news_items, title_fingerprints,
                   processed_links, prioritized_items,
                   article_requests>>

\* the feed has a next entry and the cap is reached: break (lines 392-393)
CapReached(entry) ==
    /\ p_pc = "entries"
    /\ CapIsReached(items_from_feed, max_items_per_feed)
    /\ p_pc' = "next_feed"
    /\ examined' = None /\ outcome' = "cap reached"
    /\ UNCHANGED <<scoreVars, cacheVars, fetchVars, runVars, mainVars>>
    /\ UNCHANGED <<max_items_per_feed, total_max_items, feeds_seen, feed_name, items_from_feed,
                   all_news_items, title_fingerprints, processed_links, prioritized_items,
                   article_requests>>

\* the feed has no further entry
EndOfFeed ==
    /\ p_pc = "entries"
    /\ p_pc' = "next_feed"
    /\ examined' = None /\ outcome' = "feed end"
    /\ UNCHANGED <<scoreVars, cacheVars, fetchVars, runVars, mainVars>>
    /\ UNCHANGED <<max_items_per_feed, total_max_items, feeds_seen, feed_name, items_from_feed,
                   all_news_items, title_fingerprints, processed_links, prioritized_items,
                   article_requests>>

\* the loop body ends in a continue (lines 397-398, 402-403, 409-410, 414-415)
SkipEntry(entry, why) ==
    /\ p_pc = "entries"
    /\ ~CapIsReached(items_from_feed, max_items_per_feed)
    /\ LoopOutcome(entry, processed_links, title_fingerprints) = why
    /\ examined' = Some(entry) /\ outcome' = why
    /\ UNCHANGED <<scoreVars, cacheVars, fetchVars, runVars, mainVars>>
    /\ UNCHANGED <<max_items_per_feed, total_max_items, p_pc, feeds_seen, feed_name,
                   items_from_feed, all_news_items, title_fingerprints, processed_links,
                   prioritized_items, article_requests>>

SkipMissingLink(entry) == SkipEntry(entry, "no link")
SkipSeenLink(entry) == SkipEntry(entry, "link seen")
SkipShortTitle(entry) == SkipEntry(entry, "short title")
SkipSeenTitle(entry) == SkipEntry(entry, "title seen")
SkipIrrelevant(entry) == SkipEntry(entry, "not relevant")

\* the loop body runs to its end (lines 417-450)
AdmitEntry(entry) ==
    /\ p_pc = "entries"
    /\ ~CapIsReached(items_from_feed, max_items_per_feed)
    /\ LoopOutcome(entry, processed_links, title_fingerprints) = "admitted"
    /\ all_news_items' = Append(all_news_items, [Examined[entry].item EXCEPT !.feed_name = feed_name])
    /\ processed_links' = processed_links \cup {entry.link}
    /\ title_fingerprints' = title_fingerprints \cup {Examined[entry].fingerprint}
    /\ items_from_feed' = items_from_feed + 1
    /\ article_requests' = Append(article_requests, entry.link)
    /\ examined' = Some(entry) /\ outcome' = "admitted"
    /\ UNCHANGED <<scoreVars, cacheVars, fetchVars, runVars, mainVars>>
    /\ UNCHANGED <<max_items_per_feed, total_max_items, p_pc, feeds_seen, feed_name,
                   prioritized_items>>

\* the feed results are exhausted and prioritize_articles returns (lines 453-455)
PrioritizeReturns ==
    /\ p_pc = "next_feed"
    /\ ~PrioritizeRaises(all_news_items)
    /\ prioritized_items' = Some(prioritize_articles(all_news_items, total_max_items))
    /\ all_news_items' = ScoredArticles(all_news_items)
    /\ p_pc' = "done"
    /\ examined' = None /\ outcome' = "returned"
    /\ UNCHANGED <<scoreVars, cacheVars, fetchVars, runVars, mainVars>>
    /\ UNCHANGED <<max_items_per_feed, total_max_items, feeds_seen, feed_name, items_from_feed,
                   title_fingerprints, processed_links, article_requests>>

\* the feed results are exhausted and prioritize_articles raises TypeError (line 345)
PrioritizeFails ==
    /\ p_pc = "next_feed"
    /\ PrioritizeRaises(all_news_items)
    /\ p_pc' = "raised"
    /\ examined' = None /\ outcome' = "raised"
    /\ UNCHANGED <<scoreVars, cacheVars, fetchVars, runVars, mainVars>>
    /\ UNCHANGED <<max_items_per_feed, total_max_items, feeds_seen, feed_name, items_from_feed,
                   all_news_items, title_fingerprints, processed_links, prioritized_items,
                   article_requests>>

PipeNext ==
    \/ SkipFailedFeed
    \/ \E name \in FeedNames : StartFeed(name)
    \/ \E entry \in Entries : CapReached(entry)
    \/ EndOfFeed
    \/ \E entry \in Entries : SkipMissingLink(entry)
    \/ \E entry \in Entries : SkipSeenLink(entry)
    \/ \E entry \in Entries : SkipShortTitle(entry)
    \/ \E entry \in Entries : SkipSeenTitle(entry)
    \/ \E entry \in Entries : SkipIrrelevant(entry)
    \/ \E entry \in Entries : AdmitEntry(entry)
    \/ PrioritizeReturns
    \/ PrioritizeFails

SpecPipeline == PipeInit /\ [][PipeNext]_vars

------------------------------------------------------------------------------
(* The scorer as a pure function: Init draws a title and a body, the one   *)
(* action applies the scorer.                                              *)

ScoreTitles == {
    "",
    "Webinar: Register now for our AI summit",
    "SPONSORED: best laptops",
    "Limited Time offer on ChatGPT",
    "PROMOCIÓN de verano",
    "New LLM model beats GPT-4 benchmark",
    "OpenAI releases new model",
    "Openai Chatgpt and Gemini",
    "Quarterly chip market report",
    "Claude",
    "Rain in Spain" }

ScoreBodies == {
    "",
    "openai gpt",
    Pad(85) \o " openai chatgpt",
    Pad(86) \o " openai chatgpt",
    Pad(101),
    Pad(97) \o " llm",
    Pad(93) \o " llm gpt",
    Pad(80) \o " openai chatgpt gemini",
    Pad(90) \o " webinar openai llm" }

ScoreContents == {None} \cup { Some(b) : b \in ScoreBodies }

ScoreInit ==
    /\ s_title \in ScoreTitles
    /\ s_content \in ScoreContents
    /\ s_result = None
    /\ PipeIdle /\ CacheIdle /\ FetchIdle /\ RunIdle /\ MainIdle

ScoreCall ==
    /\ s_result = None
    /\ s_result' = Some(get_article_relevance_score(s_title, s_content))
    /\ UNCHANGED <<s_title, s_content>>
    /\ UNCHANGED <<pipeVars, cacheVars, fetchVars, runVars, mainVars>>

ScoreNext == ScoreCall

SpecScore == ScoreInit /\ [][ScoreNext]_vars

(* The claims' own reading of "contains a keyword, case-insensitively":    *)
(* some stretch of the text, as long as the keyword, is the keyword when   *)
(* both are lowercased.                                                    *)
OccursIn(k, text) ==
    \E i \in 1..(Len(text) - Len(k) + 1) :
        lower(SubSeq(text, i, i + Len(k) - 1)) = lower(k)

TitleHasExclusion(title) ==
    \E i \in 1..Len(EXCLUDE_KEYWORDS) : OccursIn(EXCLUDE_KEYWORDS[i], title)

\* t: distinct AI keywords matched in the title
TitleMatches(title) == Cardinality({ i \in 1..Len(AI_KEYWORDS) : OccursIn(AI_KEYWORDS[i], title) })

\* b: distinct AI keywords matched in a body longer than 100 characters, else 0
BodyMatches(content) ==
    IF content = None THEN 0
    ELSE IF Len(content[1]) <= 100 THEN 0
    ELSE Cardinality({ i \in 1..Len(AI_KEYWORDS) : OccursIn(AI_KEYWORDS[i], content[1]) })

\* min(0.6, 0.2*t) + min(0.4, 0.1*b), in tenths
ClaimedSum(t, b) == Min(6, 2 * t) + Min(4, b)

ScoreDone == s_result # None

(* C6: for every title that contains an exclusion keyword (case-          *)
(* insensitive substring) and every body, absent or present, with any     *)
(* number of AI keyword matches, the scorer returns (false, 0.0).         *)
C6_ExclusionIsAbsolute ==
    (ScoreDone /\ TitleHasExclusion(s_title))
        => s_result[1] = [relevant |-> FALSE, score |-> 0]

\* an excluded title that also matches AI keywords, scored with a keyword-rich body
C6_Witness ==
    /\ ScoreDone
    /\ TitleHasExclusion(s_title)
    /\ TitleMatches(s_title) >= 1
    /\ BodyMatches(s_content) >= 4
    /\ s_result[1] = [relevant |-> FALSE, score |-> 0]

\* what C7 says of a title t, b and the result
ClaimedScore(title, content, result) ==
    LET sum == ClaimedSum(TitleMatches(title), BodyMatches(content))
    IN /\ result.score = Min(10, sum)
       /\ result.relevant <=> (sum > 1)

(* C7 as stated: for a title with no exclusion keyword the scorer returns *)
(* score = min(1.0, min(0.6, 0.2t) + min(0.4, 0.1b)) and included exactly *)
(* when the sum exceeds 0.1.                                              *)
C7_AsStated ==
    (ScoreDone /\ ~TitleHasExclusion(s_title))
        => ClaimedScore(s_title, s_content, s_result[1])

(* C7 amended: the same for a non-empty title with no exclusion keyword;  *)
(* an empty title scores (false, 0.0) whatever the body.                  *)
C7_NonEmptyTitle ==
    /\ (ScoreDone /\ s_title # "" /\ ~TitleHasExclusion(s_title))
            => ClaimedScore(s_title, s_content, s_result[1])
    /\ (ScoreDone /\ s_title = "")
            => s_result[1] = [relevant |-> FALSE, score |-> 0]

\* a title with no keyword of its own, included on two body matches
C7_Witness ==
    /\ ScoreDone
    /\ s_title # ""
    /\ ~TitleHasExclusion(s_title)
    /\ TitleMatches(s_title) = 0
    /\ BodyMatches(s_content) = 2
    /\ s_result[1] = [relevant |-> TRUE, score |-> 2]

------------------------------------------------------------------------------
(* Claims about process_feed_entries and prioritize_articles, under       *)
(* SpecPipeline.                                                           *)

\* the list process_feed_entries has returned
Returned == p_pc = "done"

Result == prioritized_items[1]

NoRepeatedLink(items) ==
    \A i, j \in 1..Len(items) : i < j => items[i].original_link # items[j].original_link

(* C1: no two NewsItems of a run, and none of the returned result, have   *)
(* the same original_link: of entries that share a link at most one       *)
(* survives.                                                               *)
C1_NoTwoItemsShareALink ==
    /\ NoRepeatedLink(all_news_items)
    /\ Returned => NoRepeatedLink(Result)

\* an entry is dropped because an item of another title already has its link
C1_Witness ==
    /\ outcome = "link seen"
    /\ \E i \in 1..Len(all_news_items) :
        /\ all_news_items[i].original_link = examined[1].link
        /\ all_news_items[i].title # Examined[examined[1]].title

FoldedTitles ==
    [t \in DOMAIN TitleScores |-> lower(SubSeq(t, 1, Min(50, Len(t))))]

\* a title case-insensitively on its first 50 characters
FirstFiftyFolded(title) ==
    IF title \in DOMAIN FoldedTitles THEN FoldedTitles[title]
    ELSE lower(SubSeq(title, 1, Min(50, Len(title))))

NoTwoTitlesAlike(items) ==
    Cardinality({ FirstFiftyFolded(items[i].title) : i \in 1..Len(items) }) = Len(items)

\* an item has the examined entry's cleaned title, case-insensitively on 50 characters
TitleAlreadyKept(entry) ==
    \E i \in 1..Len(all_news_items) :
        FirstFiftyFolded(all_news_items[i].title) = FirstFiftyFolded(Examined[entry].title)

(* C2: no two NewsItems of a run have cleaned titles that are equal       *)
(* case-insensitively on their first 50 characters, whatever their feeds  *)
(* and links; an entry whose title is alike to a kept item's is dropped   *)
(* and the kept item stays.                                               *)
C2_TitleDuplicatesDropped ==
    /\ [](NoTwoTitlesAlike(all_news_items) /\ (Returned => NoTwoTitlesAlike(Result)))
    /\ [][(p_pc = "entries" /\ examined' # None /\ TitleAlreadyKept(examined'[1]))
            => all_news_items' = all_news_items]_vars

\* an entry of another feed, another link and another spelling is dropped for its title
C2_Witness ==
    /\ outcome = "title seen"
    /\ \E i \in 1..Len(all_news_items) :
        /\ FirstFiftyFolded(all_news_items[i].title) = FirstFiftyFolded(Examined[examined[1]].title)
        /\ all_news_items[i].title # Examined[examined[1]].title
        /\ all_news_items[i].original_link # examined[1].link
        /\ all_news_items[i].feed_name # feed_name

ItemsNamed(items, name) == Cardinality({ i \in 1..Len(items) : items[i].feed_name = name })

(* C3: for every feed source, the number of NewsItems whose feed_name is  *)
(* that source is at most max_items_per_feed.                              *)
C3_PerFeedCap ==
    \A name \in FeedNames :
        /\ ItemsNamed(all_news_items, name) <= max_items_per_feed
        /\ Returned => ItemsNamed(Result, name) <= max_items_per_feed

\* what the loop does keep: no feed result contributes more than the cap
PerFeedResultCap == items_from_feed <= max_items_per_feed

(* C4: the list returned by prioritize_articles, and by the run, has at   *)
(* most limit items, for every limit a caller can pass (no item at all    *)
(* being the most a negative limit allows).                                *)
C4_AtMostLimit == Returned => Len(Result) <= Max(total_max_items, 0)

\* how many articles a stable sort by non-increasing score puts before article i
Rank(articles, i) ==
    Cardinality({ j \in 1..Len(articles) :
        \/ articles[j].relevance_score > articles[i].relevance_score
        \/ articles[j].relevance_score = articles[i].relevance_score /\ j < i })

StablySorted(articles) ==
    [p \in 1..Len(articles) |->
        articles[CHOOSE i \in 1..Len(articles) : Rank(articles, i) = p - 1]]

\* the first n items of s, none for n <= 0
FirstItems(s, n) == SubSeq(s, 1, Min(Max(n, 0), Len(s)))

(* C5: the output of prioritize_articles is the input sorted by           *)
(* non-increasing composite score, items of equal score in input order,   *)
(* cut to its first limit items.                                          *)
C5_StableSortCutToLimit ==
    Returned => Result = FirstItems(StablySorted(all_news_items), total_max_items)

\* the same for the limits that are not negative
StableSortCutToLimitFromZero ==
    (Returned /\ total_max_items >= 0)
        => Result = FirstItems(StablySorted(all_news_items), total_max_items)

\* a returned list where a tie was kept in input order and the limit cut the list
TieKeptAndCut ==
    /\ Returned
    /\ total_max_items >= 1
    /\ Len(Result) = total_max_items
    /\ Len(all_news_items) > total_max_items
    /\ \E i, j \in 1..Len(all_news_items) :
        /\ i < j
        /\ all_news_items[i].relevance_score = all_news_items[j].relevance_score
        /\ \E m, n \in 1..Len(Result) :
            m < n /\ Result[m] = all_news_items[i] /\ Result[n] = all_news_items[j]


(* ---------------------------------------------------------------------- *)
(* The cache store of utils/fetch.py: get_cached_response, cache_response *)
(* ---------------------------------------------------------------------- *)

CACHE_DURATION == 1800

\* the clock is read at multiples of ClockStep seconds, up to MaxClock
ClockStep == 900
MaxClock == 2700

FeedUrlA == "https://a.example/feed"
FeedUrlB == "https://b.example/rss"
Urls == {FeedUrlA, FeedUrlB}

\* _get_cache_key
get_cache_key(url) == md5(url)

\* the result dict of a successful fetch (fetch_rss_feed, lines 150-155)
FeedResult(entries, name, url) ==
    [entries |-> entries, name |-> name, url |-> url, feed_info |-> [title |-> name]]

\* the payloads put under a URL
PayloadsFor(url) ==
    IF url = FeedUrlA
    THEN { FeedResult(<<UndatedEntry>>, "Feed A", url),
           FeedResult(<<UndatedEntry, DatedEntry>>, "Feed A", url) }
    ELSE { FeedResult(<<DatedEntry>>, "Feed B", url) }

\* json.dump(..., ensure_ascii=False, default=str) of an entry: strings are
\* written as they are, a time.struct_time (a tuple) is written as an array
EntryToJson(entry) ==
    [k \in DOMAIN entry |->
        IF k \in StructTimeKeys THEN [array |-> entry[k].fields] ELSE [string |-> entry[k]]]

\* json.load of what EntryToJson wrote: an array comes back as a list
EntryFromJson(object) ==
    [k \in DOMAIN object |->
        IF "array" \in DOMAIN object[k] THEN List(object[k].array) ELSE object[k].string]

\* the cache file's text for cache_data (cache_response, lines 88-95)
json_dump(cache_data) ==
    [data |-> [cache_data.data EXCEPT
                  !.entries = [i \in DOMAIN @ |-> EntryToJson(@[i])]],
     expiry |-> cache_data.expiry, url |-> cache_data.url]

\* json.load of a complete cache file (get_cached_response, line 61)
json_load(text) ==
    [data |-> [text.data EXCEPT
                  !.entries = [i \in DOMAIN @ |-> EntryFromJson(@[i])]],
     expiry |-> text.expiry, url |-> text.url]

\* a file holds a whole document, or was opened for writing and not completed
Written(text) == <<text>>
Truncated == <<>>

\* dict[key] = value
Store(dict, key, value) ==
    [k \in DOMAIN dict \cup {key} |-> IF k = key THEN value ELSE dict[k]]

\* dict.get(key, default)
DictGet(dict, key, default) == IF key \in DOMAIN dict THEN dict[key] ELSE default

\* the expiry test passing at the very second of expiry
Fresh_AtExpiry(expiry, at) == expiry >= at

\* ... > now (lines 52 and 62)
Fresh(expiry, at) == expiry > at

\* line 52: key in _cache and _cache_expiry.get(key, 0) > now
MemoryHit(key) == key \in DOMAIN cache /\ Fresh(DictGet(cache_expiry, key, 0), now)

\* lines 57-61: the record in the cache file; None when there is no file or
\* json.load raises on it
FileRecord(key) ==
    IF key \in DOMAIN cache_files /\ cache_files[key] # Truncated
    THEN Some(json_load(cache_files[key][1]))
    ELSE None

\* line 62: cache_data.get('expiry', 0) > now
FileHit(key) == FileRecord(key) # None /\ Fresh(FileRecord(key)[1].expiry, now)

\* what get_cached_response returns (lines 53, 67, 71)
get_cached_response(url) ==
    IF MemoryHit(get_cache_key(url)) THEN Some(cache[get_cache_key(url)])
    ELSE IF FileHit(get_cache_key(url)) THEN Some(FileRecord(get_cache_key(url))[1].data)
    ELSE None

\* a promotion that gives the entry a new time to live
PromoteOnRead_NewTtl(key) ==
    IF ~MemoryHit(key) /\ FileHit(key)
    THEN /\ cache' = Store(cache, key, FileRecord(key)[1].data)
         /\ cache_expiry' = Store(cache_expiry, key, now + CACHE_DURATION)
    ELSE UNCHANGED <<cache, cache_expiry>>

\* what get_cached_response does to the memory tier (lines 65-66)
PromoteOnRead(key) ==
    IF ~MemoryHit(key) /\ FileHit(key)
    THEN /\ cache' = Store(cache, key, FileRecord(key)[1].data)
         /\ cache_expiry' = Store(cache_expiry, key, FileRecord(key)[1].expiry)
    ELSE UNCHANGED <<cache, cache_expiry>>

\* how the write of the cache file can end: written; not opened (makedirs or
\* open raised), the old file is left; opened and not completed
FileWrites == {"written", "not opened", "truncated"}

\* a put that updates the memory tier only once the file is written
cache_response_FileFirst(url, data, write) ==
    /\ cache' = IF write = "written" THEN Store(cache, get_cache_key(url), data) ELSE cache
    /\ cache_expiry' = IF write = "written"
                       THEN Store(cache_expiry, get_cache_key(url), now + CACHE_DURATION)
                       ELSE cache_expiry
    /\ cache_files' =
         CASE write = "written" ->
                Store(cache_files, get_cache_key(url),
                      Written(json_dump([data |-> data, expiry |-> now + CACHE_DURATION,
                                         url |-> url])))
           [] write = "truncated" -> Store(cache_files, get_cache_key(url), Truncated)
           [] OTHER -> cache_files
    /\ last_put' = Store(last_put, url,
                         [data |-> data, at |-> now, write |-> write, restarted |-> FALSE,
                          seen_expired |-> FALSE])

\* cache_response(url, data)
cache_response(url, data, write) ==
    /\ cache' = Store(cache, get_cache_key(url), data)
    /\ cache_expiry' = Store(cache_expiry, get_cache_key(url), now + CACHE_DURATION)
    /\ cache_files' =
         CASE write = "written" ->
                Store(cache_files, get_cache_key(url),
                      Written(json_dump([data |-> data, expiry |-> now + CACHE_DURATION,
                                         url |-> url])))
           [] write = "truncated" -> Store(cache_files, get_cache_key(url), Truncated)
           [] OTHER -> cache_files
    /\ last_put' = Store(last_put, url,
                         [data |-> data, at |-> now, write |-> write, restarted |-> FALSE,
                          seen_expired |-> FALSE])

\* CACHE_DURATION seconds or more have passed since the last put for the URL
TtlElapsed(url) == url \in DOMAIN last_put /\ now >= last_put[url].at + CACHE_DURATION

CacheInit ==
    /\ cache = EmptyDict /\ cache_expiry = EmptyDict /\ cache_files = EmptyDict
    /\ now = 0 /\ c_call = NoCall /\ last_put = EmptyDict
    /\ ScoreIdle /\ PipeIdle /\ FetchIdle /\ RunIdle /\ MainIdle

Put(url, data, write) ==
    /\ cache_response(url, data, write)
    /\ c_call' = [op |-> "put", url |-> url, result |-> None]
    /\ UNCHANGED now
    /\ UNCHANGED <<scoreVars, pipeVars, fetchVars, runVars, mainVars>>

Get(url) ==
    /\ c_call' = [op |-> "get", url |-> url, result |-> get_cached_response(url)]
    /\ PromoteOnRead(get_cache_key(url))
    /\ last_put' = IF get_cached_response(url) = None /\ TtlElapsed(url)
                   THEN [last_put EXCEPT ![url].seen_expired = TRUE]
                   ELSE last_put
    /\ UNCHANGED <<cache_files, now>>
    /\ UNCHANGED <<scoreVars, pipeVars, fetchVars, runVars, mainVars>>

\* time passes
ClockAdvances ==
    /\ now + ClockStep <= MaxClock
    /\ now' = now + ClockStep
    /\ c_call' = [op |-> "clock", url |-> "", result |-> None]
    /\ UNCHANGED <<cache, cache_expiry, cache_files, last_put>>
    /\ UNCHANGED <<scoreVars, pipeVars, fetchVars, runVars, mainVars>>

\* the process ends and a new one starts: the module globals are empty again
Restart ==
    /\ cache' = EmptyDict /\ cache_expiry' = EmptyDict
    /\ last_put' = [url \in DOMAIN last_put |-> [last_put[url] EXCEPT !.restarted = TRUE]]
    /\ c_call' = [op |-> "restart", url |-> "", result |-> None]
    /\ UNCHANGED <<cache_files, now>>
    /\ UNCHANGED <<scoreVars, pipeVars, fetchVars, runVars, mainVars>>

CacheNext ==
    \/ \E url \in Urls : \E data \in PayloadsFor(url) : \E write \in FileWrites :
          Put(url, data, write)
    \/ \E url \in Urls : Get(url)
    \/ ClockAdvances
    \/ Restart

SpecCache == CacheInit /\ [][CacheNext]_vars

\* a get has just returned
GetReturned == c_call.op = "get"

\* the get that just returned follows a put for its URL whose TTL has not elapsed
GetWithinTtl ==
    /\ GetReturned
    /\ c_call.url \in DOMAIN last_put
    /\ now < last_put[c_call.url].at + CACHE_DURATION

\* Claim C8, for the puts that wrote their cache file: a get for a URL made
\* after a put for it and before CACHE_DURATION seconds have passed, with no
\* other put for that URL in between, returns exactly the payload put, from
\* whichever tier serves it.
C8_GetReturnsThePayloadPut ==
    GetWithinTtl /\ last_put[c_call.url].write = "written"
        => c_call.result = Some(last_put[c_call.url].data)

\* the same for every put, also one whose file write failed
GetReturnsThePayloadPut_AnyWrite ==
    GetWithinTtl => c_call.result = Some(last_put[c_call.url].data)

\* what holds: while the process that made the put lives, the get returns
\* exactly the payload put
InProcessRoundTrip ==
    GetWithinTtl /\ ~last_put[c_call.url].restarted
        => c_call.result = Some(last_put[c_call.url].data)

\* after a restart the get returns what json.load makes of the file written
DurableRoundTrip ==
    GetWithinTtl /\ last_put[c_call.url].write = "written"
        => c_call.result \in
              { Some(last_put[c_call.url].data),
                Some(json_load(json_dump([data |-> last_put[c_call.url].data,
                                          expiry |-> 0, url |-> c_call.url])).data) }

\* a get served from the file after a restart, within the TTL of a put that
\* wrote its file
ServedFromFileAfterRestart ==
    /\ GetWithinTtl /\ c_call.result # None
    /\ last_put[c_call.url].write = "written" /\ last_put[c_call.url].restarted

\* Claim C9: a get never returns a payload whose expiry is at or before the
\* current time. What it returns is held by the memory tier with an expiry
\* later than now, the TTL of the last put for the URL has not elapsed, and no
\* get for the URL has reported the entry expired since that put: once
\* reported absent, an expired entry stays absent until the next put.
C9_ExpiredIsAbsent ==
    GetReturned /\ c_call.result # None
        => /\ cache[get_cache_key(c_call.url)] = c_call.result[1]
           /\ cache_expiry[get_cache_key(c_call.url)] > now
           /\ c_call.url \in DOMAIN last_put
           /\ ~TtlElapsed(c_call.url)
           /\ ~last_put[c_call.url].seen_expired

\* a get reports absent an entry that both tiers still hold, at the very
\* second of its expiry, after an earlier get had reported it absent
C9_Witness ==
    /\ GetReturned /\ c_call.result = None
    /\ get_cache_key(c_call.url) \in DOMAIN cache
    /\ FileRecord(get_cache_key(c_call.url)) # None
    /\ FileRecord(get_cache_key(c_call.url))[1].expiry = cache_expiry[get_cache_key(c_call.url)]
    /\ \E url \in Urls \ {c_call.url} :
          /\ url \in DOMAIN last_put /\ last_put[url].seen_expired
          /\ cache_expiry[get_cache_key(url)] = now


(* ---------------------------------------------------------------------- *)
(* The fetcher of utils/fetch.py: fetch_rss_feed, fetch_all_feeds         *)
(* ---------------------------------------------------------------------- *)

MAX_CONCURRENT_REQUESTS == 10
MAX_RETRIES == 3

\* feed_urls.items(): the sources that can be configured, one task each; a run
\* takes the first ones
Sources ==
    << [name |-> "Feed A", url |-> FeedUrlA], [name |-> "Feed B", url |-> FeedUrlB],
       [name |-> "Feed C", url |-> "https://c.example/feed"],
       [name |-> "Feed D", url |-> "https://d.example/feed"],
       [name |-> "Feed E", url |-> "https://e.example/feed"],
       [name |-> "Feed F", url |-> "https://f.example/feed"],
       [name |-> "Feed G", url |-> "https://g.example/feed"],
       [name |-> "Feed H", url |-> "https://h.example/feed"],
       [name |-> "Feed I", url |-> "https://i.example/feed"],
       [name |-> "Feed J", url |-> "https://j.example/feed"],
       [name |-> "Feed K", url |-> "https://k.example/feed"] >>

\* the tasks of the run
Tasks == DOMAIN t_pc

\* the sources of a run of two feeds
FetchTasks == {1, 2}

\* asyncio.Semaphore with every permit taken
locked_Never(value) == FALSE

\* asyncio.Semaphore.locked()
locked(value) == value = 0

\* feed_data.entries when the document at the URL is fetched and parsed
FeedEntries(url) ==
    IF url = FeedUrlA THEN <<UndatedEntry, DatedEntry>> ELSE <<DatedEntry>>

\* the failures after which the loop goes on: a status other than 200
\* (lines 125-132), a document with no entries and no feed (lines 140-147),
\* aiohttp.ClientError and asyncio.TimeoutError (lines 163-170)
RetryableFailures == {"HTTP 503", "Empty or invalid feed", "ClientError", "TimeoutError"}

\* the loop going on one time fewer
MayRetry_OneFewer(n) == n < MAX_RETRIES

\* retries <= MAX_RETRIES (lines 115, 129, 144, 167)
MayRetry(n) == n <= MAX_RETRIES

\* a failed fetch returning the entries of the feed all the same
EmptyResult_WithEntries(source) ==
    [entries |-> FeedEntries(source.url), name |-> source.name, url |-> source.url]

\* the dict returned when no attempt succeeded (lines 178, 182)
EmptyResult(source) == [entries |-> <<>>, name |-> source.name, url |-> source.url]

\* cache files an earlier run can have left for FeedUrlA: none, one that has
\* expired, one that is still valid
EarlierCacheFiles ==
    {EmptyDict} \cup
    { Store(EmptyDict, get_cache_key(FeedUrlA),
            Written(json_dump([data |-> FeedResult(<<UndatedEntry>>, "Feed A", FeedUrlA),
                               expiry |-> expiry, url |-> FeedUrlA]))) :
        expiry \in {0, ClockStep} }

FetchInit ==
    /\ t_pc = [t \in FetchTasks |-> "start"]
    /\ retries = [t \in FetchTasks |-> 0]
    /\ last_exception = [t \in FetchTasks |-> None]
    /\ attempts = [t \in FetchTasks |-> <<>>]
    /\ t_result = [t \in FetchTasks |-> None]
    /\ permits = MAX_CONCURRENT_REQUESTS
    /\ feed_results = None
    /\ cache = EmptyDict /\ cache_expiry = EmptyDict
    /\ cache_files \in EarlierCacheFiles
    /\ now = 0 /\ c_call = NoCall /\ last_put = EmptyDict
    /\ ScoreIdle /\ PipeIdle /\ RunIdle /\ MainIdle

\* a fetch that goes for a permit whatever the cache holds
CheckCache_Ignored(t) ==
    /\ t_pc[t] = "start"
    /\ t_pc' = [t_pc EXCEPT ![t] = "acquire"]
    /\ UNCHANGED <<cache, cache_expiry, t_result>>
    /\ UNCHANGED <<cache_files, now, c_call, last_put>>
    /\ UNCHANGED <<retries, last_exception, attempts, permits, feed_results>>
    /\ UNCHANGED <<scoreVars, pipeVars, runVars, mainVars>>

\* lines 105-108: the cache is asked first
CheckCache(t) ==
    /\ t_pc[t] = "start"
    /\ PromoteOnRead(get_cache_key(Sources[t].url))
    /\ IF get_cached_response(Sources[t].url) # None
       THEN /\ t_result' = [t_result EXCEPT ![t] = get_cached_response(Sources[t].url)]
            /\ t_pc' = [t_pc EXCEPT ![t] = "returned"]
       ELSE /\ t_pc' = [t_pc EXCEPT ![t] = "acquire"]
            /\ UNCHANGED t_result
    /\ UNCHANGED <<cache_files, now, c_call, last_put>>
    /\ UNCHANGED <<retries, last_exception, attempts, permits, feed_results>>
    /\ UNCHANGED <<scoreVars, pipeVars, runVars, mainVars>>

\* lines 111-113: async with semaphore
EnterSemaphore(t) ==
    /\ t_pc[t] = "acquire" /\ ~locked(permits)
    /\ permits' = permits - 1
    /\ retries' = [retries EXCEPT ![t] = 0]
    /\ last_exception' = [last_exception EXCEPT ![t] = None]
    /\ t_pc' = [t_pc EXCEPT ![t] = "request"]
    /\ UNCHANGED <<attempts, t_result, feed_results>>
    /\ UNCHANGED <<cacheVars, scoreVars, pipeVars, runVars, mainVars>>

\* lines 122-161: status 200 and a feed that parses; the result is cached and returned
AttemptSucceeds(t, write) ==
    /\ t_pc[t] = "request"
    /\ attempts' = [attempts EXCEPT ![t] = Append(@, "ok")]
    /\ t_result' = [t_result EXCEPT ![t] =
                      Some(FeedResult(FeedEntries(Sources[t].url), Sources[t].name,
                                      Sources[t].url))]
    /\ cache_response(Sources[t].url,
                      FeedResult(FeedEntries(Sources[t].url), Sources[t].name, Sources[t].url),
                      write)
    /\ permits' = permits + 1
    /\ t_pc' = [t_pc EXCEPT ![t] = "returned"]
    /\ UNCHANGED <<retries, last_exception, feed_results, now, c_call>>
    /\ UNCHANGED <<scoreVars, pipeVars, runVars, mainVars>>

\* a last failure that leaves the semaphore block without giving the permit back
AttemptFails_KeepsPermit(t, failure) ==
    /\ t_pc[t] = "request"
    /\ attempts' = [attempts EXCEPT ![t] = Append(@, "retryable")]
    /\ last_exception' = [last_exception EXCEPT ![t] = Some(failure)]
    /\ retries' = [retries EXCEPT ![t] = @ + 1]
    /\ IF MayRetry(retries[t] + 1)
       THEN /\ t_pc' = [t_pc EXCEPT ![t] = "sleep"]
            /\ UNCHANGED <<t_result, permits>>
       ELSE /\ t_result' = [t_result EXCEPT ![t] = Some(EmptyResult(Sources[t]))]
            /\ UNCHANGED permits
            /\ t_pc' = [t_pc EXCEPT ![t] = "returned"]
    /\ UNCHANGED feed_results
    /\ UNCHANGED <<cacheVars, scoreVars, pipeVars, runVars, mainVars>>

\* lines 125-132, 140-147, 163-170: a failure after which the loop may go on
AttemptFails(t, failure) ==
    /\ t_pc[t] = "request"
    /\ attempts' = [attempts EXCEPT ![t] = Append(@, "retryable")]
    /\ last_exception' = [last_exception EXCEPT ![t] = Some(failure)]
    /\ retries' = [retries EXCEPT ![t] = @ + 1]
    /\ IF MayRetry(retries[t] + 1)
       THEN /\ t_pc' = [t_pc EXCEPT ![t] = "sleep"]
            /\ UNCHANGED <<t_result, permits>>
       ELSE /\ t_result' = [t_result EXCEPT ![t] = Some(EmptyResult(Sources[t]))]
            /\ permits' = permits + 1
            /\ t_pc' = [t_pc EXCEPT ![t] = "returned"]
    /\ UNCHANGED feed_results
    /\ UNCHANGED <<cacheVars, scoreVars, pipeVars, runVars, mainVars>>

\* an unexpected exception whose empty result is put in the cache
AttemptRaises_CachesEmpty(t) ==
    /\ t_pc[t] = "request"
    /\ attempts' = [attempts EXCEPT ![t] = Append(@, "unexpected")]
    /\ last_exception' = [last_exception EXCEPT ![t] = Some("unexpected")]
    /\ t_result' = [t_result EXCEPT ![t] = Some(EmptyResult(Sources[t]))]
    /\ cache_response(Sources[t].url, EmptyResult(Sources[t]), "written")
    /\ permits' = permits + 1
    /\ t_pc' = [t_pc EXCEPT ![t] = "returned"]
    /\ UNCHANGED <<retries, feed_results, now, c_call>>
    /\ UNCHANGED <<scoreVars, pipeVars, runVars, mainVars>>

\* an unexpected exception handled as the retryable ones are
AttemptRaises_Retried(t) ==
    /\ t_pc[t] = "request"
    /\ attempts' = [attempts EXCEPT ![t] = Append(@, "unexpected")]
    /\ last_exception' = [last_exception EXCEPT ![t] = Some("unexpected")]
    /\ retries' = [retries EXCEPT ![t] = @ + 1]
    /\ IF MayRetry(retries[t] + 1)
       THEN /\ t_pc' = [t_pc EXCEPT ![t] = "sleep"]
            /\ UNCHANGED <<t_result, permits>>
       ELSE /\ t_result' = [t_result EXCEPT ![t] = Some(EmptyResult(Sources[t]))]
            /\ permits' = permits + 1
            /\ t_pc' = [t_pc EXCEPT ![t] = "returned"]
    /\ UNCHANGED feed_results
    /\ UNCHANGED <<cacheVars, scoreVars, pipeVars, runVars, mainVars>>

\* lines 171-174: any other exception ends the loop
AttemptRaises(t) ==
    /\ t_pc[t] = "request"
    /\ attempts' = [attempts EXCEPT ![t] = Append(@, "unexpected")]
    /\ last_exception' = [last_exception EXCEPT ![t] = Some("unexpected")]
    /\ t_result' = [t_result EXCEPT ![t] = Some(EmptyResult(Sources[t]))]
    /\ permits' = permits + 1
    /\ t_pc' = [t_pc EXCEPT ![t] = "returned"]
    /\ UNCHANGED <<retries, feed_results>>
    /\ UNCHANGED <<cacheVars, scoreVars, pipeVars, runVars, mainVars>>

\* asyncio.sleep(RETRY_DELAY * retries) is over; the loop tests retries <= MAX_RETRIES
BackoffEnds(t) ==
    /\ t_pc[t] = "sleep" /\ MayRetry(retries[t])
    /\ t_pc' = [t_pc EXCEPT ![t] = "request"]
    /\ UNCHANGED <<retries, last_exception, attempts, t_result, permits, feed_results>>
    /\ UNCHANGED <<cacheVars, scoreVars, pipeVars, runVars, mainVars>>

\* fetch_all_feeds, line 205: gather returns the results in the order of the sources
Gather ==
    /\ feed_results = None
    /\ \A t \in Tasks : t_pc[t] = "returned"
    /\ feed_results' = Some([t \in Tasks |-> t_result[t][1]])
    /\ UNCHANGED <<t_pc, retries, last_exception, attempts, t_result, permits>>
    /\ UNCHANGED <<cacheVars, scoreVars, pipeVars, runVars, mainVars>>

\* get_ai_news called with its defaults (main.py, line 57)
DEFAULT_MAX_ITEMS_PER_FEED == 5
DEFAULT_TOTAL_MAX_ITEMS == 30

\* a gathered feed result as process_feed_entries reads it: fetch_rss_feed returns a
\* dict, never an Exception
ResultRead(result) ==
    [exception |-> "", name |-> result.name,
     entries |-> [i \in 1..Len(result.entries) |-> EntryRead(result.entries[i])]]

\* get_ai_news, lines 84-89: the gathered results are processed and the items returned,
\* or the exception of process_feed_entries reaches the caller
GetAiNewsReturns ==
    /\ feed_results # None /\ news_items = None
    /\ news_items' = Some(process_feed_entries([t \in Tasks |-> ResultRead(feed_results[1][t])],
                                               DEFAULT_MAX_ITEMS_PER_FEED,
                                               DEFAULT_TOTAL_MAX_ITEMS))
    /\ UNCHANGED <<fetchVars, cacheVars, scoreVars, pipeVars, runVars>>

FetchNext ==
    \/ \E t \in FetchTasks : CheckCache(t)
    \/ \E t \in FetchTasks : EnterSemaphore(t)
    \/ \E t \in FetchTasks : \E write \in FileWrites : AttemptSucceeds(t, write)
    \/ \E t \in FetchTasks : \E failure \in RetryableFailures : AttemptFails(t, failure)
    \/ \E t \in FetchTasks : AttemptRaises(t)
    \/ \E t \in FetchTasks : BackoffEnds(t)
    \/ Gather
    \/ GetAiNewsReturns

SpecFetch == FetchInit /\ [][FetchNext]_vars

(* A run of one feed more than there are permits. asyncio runs the first   *)
(* step of each task in the order gather created them, and the semaphore   *)
(* wakes its waiters in the order they came. The first source may fail     *)
(* with HTTP 503; the others answer their first request.                   *)
ManyTasks == 1..(MAX_CONCURRENT_REQUESTS + 1)
UnreliableTasks == {1}

ManyFeedsInit ==
    /\ t_pc = [t \in ManyTasks |-> "start"]
    /\ retries = [t \in ManyTasks |-> 0]
    /\ last_exception = [t \in ManyTasks |-> None]
    /\ attempts = [t \in ManyTasks |-> <<>>]
    /\ t_result = [t \in ManyTasks |-> None]
    /\ permits = MAX_CONCURRENT_REQUESTS
    /\ feed_results = None
    /\ CacheIdle /\ ScoreIdle /\ PipeIdle /\ RunIdle /\ MainIdle

\* the task's turn to run its first step has come
TaskStarts(t) ==
    /\ \A u \in Tasks : u < t => t_pc[u] # "start" /\ (t_pc[u] = "acquire" => locked(permits))
    /\ CheckCache(t)

\* the task is the first of the waiters, or never had to wait
TaskGetsPermit(t) ==
    /\ \A u \in Tasks : u < t => t_pc[u] # "acquire"
    /\ EnterSemaphore(t)

RequestRefused(t) == t \in UnreliableTasks /\ AttemptFails(t, "HTTP 503")

ManyFeedsNext ==
    \/ \E t \in ManyTasks : TaskStarts(t)
    \/ \E t \in ManyTasks : TaskGetsPermit(t)
    \/ \E t \in ManyTasks : AttemptSucceeds(t, "written")
    \/ \E t \in ManyTasks : RequestRefused(t)
    \/ \E t \in ManyTasks : BackoffEnds(t)
    \/ Gather

SpecManyFeeds == ManyFeedsInit /\ [][ManyFeedsNext]_vars

\* every request the task has sent ended in a retryable failure
OnlyRetryableFailures(t) ==
    attempts[t] # <<>> /\ \A i \in DOMAIN attempts[t] : attempts[t][i] = "retryable"

RequestsFor(link) ==
    Cardinality({ i \in DOMAIN article_requests : article_requests[i] = link })

\* Claim C11: the request for an article page that fails (a status other than
\* 200, a network error, a timeout) is retried 3 more times before the
\* article is left with an empty body: an admitted article whose page fails
\* on every request has been requested 1 + MAX_RETRIES times.
C11_FailedArticleFetchRetried ==
    \A i \in DOMAIN all_news_items :
        ArticleResponse(all_news_items[i].original_link) # "200"
            => RequestsFor(all_news_items[i].original_link) = 1 + MAX_RETRIES

\* what holds: every admitted article has been requested once, whatever the
\* response, and in the order of admission
ArticleFetchedOnce ==
    /\ Len(article_requests) = Len(all_news_items)
    /\ \A i \in DOMAIN all_news_items : article_requests[i] = all_news_items[i].original_link
    /\ \A i \in DOMAIN all_news_items : RequestsFor(all_news_items[i].original_link) = 1


(* ---------------------------------------------------------------------- *)
(* The permit pool                                                        *)
(* ---------------------------------------------------------------------- *)

\* the feed tasks with a request in flight
InFlight == { t \in Tasks : t_pc[t] = "request" }

\* the feed tasks inside `async with semaphore`
PermitHolders == { t \in Tasks : t_pc[t] \in {"request", "sleep"} }

C13_ReadySiblingProceeds ==
    \A t \in Tasks :
        /\ t_pc[t] = "acquire"
        /\ \E u \in Tasks : t_pc[u] = "sleep"
        /\ Cardinality(InFlight) < MAX_CONCURRENT_REQUESTS
        => ~locked(permits)

\* what holds: a failing feed cancels no sibling; each task returns a result
\* of its own and a task that is not waiting is never held
NoSiblingCancelled ==
    /\ \A t \in Tasks : t_pc[t] = "returned" => t_result[t] # None
    /\ \A t \in Tasks :
          t_pc[t] = "returned" /\ attempts[t] # <<>> /\ attempts[t][Len(attempts[t])] = "ok"
              => t_result[t][1].entries = FeedEntries(Sources[t].url)


(* ---------------------------------------------------------------------- *)
(* Errors of one source or one article                                    *)
(* ---------------------------------------------------------------------- *)

\* Claim C14: process_feed_entries returns a list of items and never raises,
\* whatever the feed results: failed feeds, entries with missing fields,
\* failed article fetches, publish dates with or without a time zone.
C14_NeverRaises == p_pc # "raised"

\* what holds: the call raises only when it has admitted an entry whose publish
\* date parsed to a timestamp without a time zone; failed feeds, missing
\* fields and failed article fetches never make it raise
RaisesOnlyOnNaiveDate ==
    p_pc = "raised"
        => \E i \in DOMAIN all_news_items :
              /\ all_news_items[i].published_datetime # None
              /\ ~all_news_items[i].published_datetime[1].aware

\* the call has returned although a feed failed, an admitted entry had no
\* date and another one's article page could not be fetched
ErrorsContained ==
    /\ p_pc = "done" /\ Len(all_news_items) >= 2
    /\ \E i \in DOMAIN all_news_items : all_news_items[i].published_datetime = None
    /\ \E i \in DOMAIN all_news_items :
          ArticleResponse(all_news_items[i].original_link) # "200"


------------------------------------------------------------------------------
(* process_feed_entries as a function of the list of feed results, and     *)
(* calls of it on the same feed results in the order given and reversed.   *)

\* the entry of Entries whose title starts so
EntryTitled(start) == CHOOSE e \in Entries : Prefix(e.title, Len(start)) = start

\* feed results to call it on: two that share a link, two whose items tie on score,
\* one whose entry is dated without a time zone, one with an entry relevant by its
\* description alone, one that failed
RunFeeds == {
    [exception |-> "", name |-> "Feed A", entries |-> <<EntryTitled("OpenAI releases"), EntryTitled("Webinar")>>],
    [exception |-> "", name |-> "Feed B", entries |-> <<EntryTitled("Breaking"), EntryTitled("<b>Gemini")>>],
    [exception |-> "", name |-> "Feed C", entries |-> <<EntryTitled("<b>Gemini"), EntryTitled("Claude gets")>>],
    [exception |-> "", name |-> "Feed D", entries |-> <<EntryTitled("Openai Releases")>>],
    [exception |-> "", name |-> "Feed E", entries |-> <<EntryTitled("Quarterly")>>],
    [exception |-> "", name |-> "Feed F", entries |-> <<BodyOnlyEntry, EntryTitled("Claude gets")>>],
    [exception |-> "ClientError", name |-> "", entries |-> <<>>] }

RunOrders == {"given", "reversed"}

Reversed(results) == [k \in 1..Len(results) |-> results[Len(results) + 1 - k]]

InOrder(order, results) == IF order = "given" THEN results ELSE Reversed(results)

RunInit ==
    /\ run_feeds \in { <<a, b>> : a \in RunFeeds, b \in RunFeeds }
    /\ run_cap \in Caps
    /\ run_limit \in Limits
    /\ run_returns = EmptyDict
    /\ ScoreIdle /\ PipeIdle /\ CacheIdle /\ FetchIdle /\ MainIdle

\* a call of process_feed_entries on the feed results in one order
ProcessFeedEntries(order) ==
    /\ order \notin DOMAIN run_returns
    /\ run_returns' = Store(run_returns, order,
                            process_feed_entries(InOrder(order, run_feeds), run_cap, run_limit))
    /\ UNCHANGED <<run_feeds, run_cap, run_limit>>
    /\ UNCHANGED <<scoreVars, pipeVars, cacheVars, fetchVars, mainVars>>

RunNext == \E order \in RunOrders : ProcessFeedEntries(order)

SpecOrder == RunInit /\ [][RunNext]_vars

BothOrdersRun == DOMAIN run_returns = RunOrders

\* C16: process_feed_entries returns the same sequence whatever the order of the feed
\* results it is given: the calls on the given order and on the reversed order agree.
C16_SameResultInAnyOrder ==
    BothOrdersRun => run_returns["given"] = run_returns["reversed"]

\* two feeds offer the same link under two titles; which title is kept depends on the order
FirstArrivalWins ==
    /\ BothOrdersRun
    /\ \E i \in 1..Len(run_returns["given"].value),
          j \in 1..Len(run_returns["reversed"].value) :
          /\ run_returns["given"].value[i].original_link
                 = run_returns["reversed"].value[j].original_link
          /\ run_returns["given"].value[i].title # run_returns["reversed"].value[j].title

------------------------------------------------------------------------------
\* the task found nothing in the cache and none of its requests was answered with a feed
SourceFailed(t) ==
    /\ t_pc[t] = "returned"
    /\ attempts[t] # <<>>
    /\ \A i \in DOMAIN attempts[t] : attempts[t][i] # "ok"

GetAiNewsReturned == news_items # None

\* C15: when every source failed on all of its attempts, get_ai_news returns, no
\* exception reaches the caller, and what it returns is the empty list.
C15_AllFeedsFailReturnsEmpty ==
    GetAiNewsReturned /\ (\A t \in Tasks : SourceFailed(t))
        => news_items[1] = [exception |-> "", value |-> <<>>]

\* both sources used up their four requests and get_ai_news has returned
C15_Witness ==
    /\ GetAiNewsReturned
    /\ \A t \in Tasks : OnlyRetryableFailures(t) /\ Len(attempts[t]) = MAX_RETRIES + 1

\* a run in which a source answered returns its items
SomeFeedAnswered ==
    /\ GetAiNewsReturned
    /\ news_items[1].exception = "" /\ news_items[1].value # <<>>

------------------------------------------------------------------------------
\* 1.0 in the unit of the scores, sixteenths of a point
OnePoint == 16

\* C17 as stated: every item returned has a relevance_score between 0.0 and 1.0.
C17_ScoreInUnitRange ==
    Returned =>
        \A i \in 1..Len(Result) :
            Result[i].relevance_score >= 0 /\ Result[i].relevance_score <= OnePoint

\* C17 amended: the relevance_score of every item returned is the composite score
\* prioritize_articles ranked it by (relevance, recency and trusted-source points
\* together), a number of points that is never negative; it is not a 0.0-1.0 score.
C17_ScoreIsTheCompositeScore ==
    Returned =>
        \A i \in 1..Len(Result) :
            /\ Result[i].relevance_score = CompositeScore(Result[i])
            /\ Result[i].relevance_score >= 0

\* an item is returned with more than one point in its relevance_score
C17_Witness ==
    Returned /\ \E i \in 1..Len(Result) : Result[i].relevance_score > OnePoint

------------------------------------------------------------------------------
\* the get that just returned a payload follows a put for its URL that wrote its cache
\* file and a restart after it: the payload came from that file, read by this get or
\* by an earlier one
ServedFromDurableTier ==
    /\ GetReturned /\ c_call.result # None
    /\ c_call.url \in DOMAIN last_put
    /\ last_put[c_call.url].write = "written"
    /\ last_put[c_call.url].restarted

\* an entry of the payload holds a time.struct_time
HoldsStructTime(data) ==
    \E i \in 1..Len(data.entries) : DOMAIN data.entries[i] \cap StructTimeKeys # {}

\* C18: a payload served from the durable tier after a restart equals the payload
\* that was put, and its expiry is the expiry given at the put.
C18_DurableRecordLossless ==
    ServedFromDurableTier
        => /\ c_call.result = Some(last_put[c_call.url].data)
           /\ cache_expiry[get_cache_key(c_call.url)] = last_put[c_call.url].at + CACHE_DURATION

\* the expiry does come back as it was written, and so does a payload of strings alone
DurableExpiryAndStringsKept ==
    ServedFromDurableTier
        => /\ cache_expiry[get_cache_key(c_call.url)] = last_put[c_call.url].at + CACHE_DURATION
           /\ ~HoldsStructTime(last_put[c_call.url].data)
                 => c_call.result = Some(last_put[c_call.url].data)

\* a payload of strings alone was served from the durable tier
StringsServedFromDurableTier ==
    ServedFromDurableTier /\ ~HoldsStructTime(last_put[c_call.url].data)

------------------------------------------------------------------------------
\* the entry an item was made from
EntryOf(item) ==
    CHOOSE e \in AllEntries : e.link = item.original_link /\ Examined[e].title = item.title

\* the scorer on the title and the summary of each entry, as the inclusion test calls
\* it (lines 412-415), in tenths
InclusionScores ==
    [e \in AllEntries |-> get_article_relevance_score(Examined[e].title, Some(SummaryOf(e))).score]

\* the part of an item's composite score that is neither recency nor trusted source
RelevanceContribution(item) ==
    item.relevance_score - RecencyPoints(item) - TrustedPoints(item)

\* the items a call returned, in any of the orders tried
ReturnedItems ==
    UNION { { run_returns[order].value[i] : i \in 1..Len(run_returns[order].value) } :
            order \in DOMAIN run_returns }

\* 40 points for a score of 1.0: 64 sixteenths of a point for each tenth
PointsPerTenth == 64

\* C19: the relevance contribution of every item ranked is 40 times the score the
\* scorer gave its title and body when it was included, so an item included on
\* its body alone has a contribution above zero.
C19_ContributionFromInclusionScore ==
    \A item \in ReturnedItems :
        RelevanceContribution(item) = PointsPerTenth * InclusionScores[EntryOf(item)]

\* what holds: the contribution is 40 times the scorer's score of the title alone,
\* which is at most 0.6, so it ranges up to 24
ContributionFromTitleAlone ==
    \A item \in ReturnedItems :
        /\ RelevanceContribution(item) = PointsPerTenth * TitleRelevance(item.title).score
        /\ RelevanceContribution(item) <= 24 * OnePoint

\* an item included on the keywords of its body alone is ranked with no relevance points
IncludedOnBodyRankedWithoutIt ==
    \E item \in ReturnedItems :
        /\ InclusionScores[EntryOf(item)] > 0
        /\ RelevanceContribution(item) = 0

------------------------------------------------------------------------------
\* the entry passes the link, title-length, fingerprint and relevance filters, given
\* the links and fingerprints of the items admitted so far
PassesFilters(entry, links, fingerprints) ==
    /\ entry.link # "" /\ entry.link \notin links
    /\ Len(Examined[entry].title) >= 10
    /\ Examined[entry].fingerprint \notin fingerprints
    /\ Examined[entry].relevant

\* the step examines an entry of the current feed below the cap, and takes it, with
\* one article request, exactly when it passes the filters
ExaminesInTurn ==
    /\ p_pc = "entries" /\ items_from_feed < max_items_per_feed
    /\ IF PassesFilters(examined'[1], processed_links, title_fingerprints)
       THEN /\ all_news_items' =
                  Append(all_news_items,
                         [Examined[examined'[1]].item EXCEPT !.feed_name = feed_name])
            /\ items_from_feed' = items_from_feed + 1
            /\ article_requests' = Append(article_requests, examined'[1].link)
       ELSE UNCHANGED <<all_news_items, items_from_feed, article_requests>>

\* the step examines no entry: it adds no item and sends no article request
ExaminesNothing ==
    /\ article_requests' = article_requests
    /\ Len(all_news_items') = Len(all_news_items)

\* C20: within a feed the entries are taken in document order: each entry examined is
\* admitted exactly when it passes the link, title-length, fingerprint and relevance
\* filters given the items admitted before it, the items are appended in that order,
\* a feed never has more than max_items_per_feed items, and once it has that many the
\* loop leaves the feed without examining or fetching another entry.
C20_DocumentOrderUpToCap ==
    /\ [](items_from_feed <= max_items_per_feed)
    /\ [][ /\ examined' # None => ExaminesInTurn
           /\ examined' = None => ExaminesNothing
           /\ p_pc = "entries" /\ items_from_feed >= max_items_per_feed
                 => examined' = None /\ p_pc' = "next_feed" ]_vars

\* the second feed is left at the cap of two items with an entry still to come, and
\* every item admitted so far cost one article request
C20_Witness ==
    /\ outcome = "cap reached" /\ feeds_seen = 2
    /\ max_items_per_feed = 2 /\ items_from_feed = 2
    /\ Len(all_news_items) >= 3
    /\ Len(article_requests) = Len(all_news_items)

------------------------------------------------------------------------------
\* the step is a get for a URL whose memory entry is absent or expired while the cache
\* file holds a record that has not expired
GetPromotes(url) ==
    /\ c_call' = [op |-> "get", url |-> url, result |-> c_call'.result]
    /\ ~MemoryHit(get_cache_key(url)) /\ FileHit(get_cache_key(url))

\* C21: a get that finds the memory entry absent or expired and a record in the cache
\* file that has not expired returns the payload of the file and leaves it in the
\* memory tier with the expiry of the file, not a later one, so that a get that
\* follows before the expiry is served from the memory tier.
C21_PromotionKeepsExpiry ==
    [][ \A url \in Urls :
          GetPromotes(url)
              => /\ c_call'.result = Some(FileRecord(get_cache_key(url))[1].data)
                 /\ cache'[get_cache_key(url)] = FileRecord(get_cache_key(url))[1].data
                 /\ cache_expiry'[get_cache_key(url)] = FileRecord(get_cache_key(url))[1].expiry
                 /\ cache_expiry'[get_cache_key(url)] > now'
                 /\ get_cache_key(url) \in DOMAIN cache' ]_vars

\* a payload promoted after a restart and some time is in the memory tier with the
\* expiry its put gave it
C21_Witness ==
    /\ GetReturned /\ c_call.result # None
    /\ c_call.url \in DOMAIN last_put /\ last_put[c_call.url].restarted
    /\ now > last_put[c_call.url].at
    /\ cache[get_cache_key(c_call.url)] = c_call.result[1]
    /\ cache_expiry[get_cache_key(c_call.url)] = last_put[c_call.url].at + CACHE_DURATION
    /\ MemoryHit(get_cache_key(c_call.url))

------------------------------------------------------------------------------
\* the last put for the URL failed to write its cache file, and the process that made
\* it is still the one running
FailedWriteInProcess(url) ==
    /\ url \in DOMAIN last_put
    /\ last_put[url].write # "written"
    /\ ~last_put[url].restarted

\* C22 as stated: after a put whose file write failed, every get for the URL before
\* the expiry of that put returns the payload put, never an older one.
C22_AnyLaterGetReturnsNewPayload ==
    GetWithinTtl /\ last_put[c_call.url].write # "written"
        => c_call.result = Some(last_put[c_call.url].data)

\* C22 amended: a put whose file write fails returns all the same; while the process
\* that made it runs, the memory tier holds the payload put with the expiry of that
\* put, and a get for the URL before that expiry returns the payload put, not an
\* older one left in the file.
C22_FailedWriteStillCaches ==
    \A url \in Urls :
        FailedWriteInProcess(url)
            => /\ get_cache_key(url) \in DOMAIN cache
               /\ cache[get_cache_key(url)] = last_put[url].data
               /\ cache_expiry[get_cache_key(url)] = last_put[url].at + CACHE_DURATION
               /\ GetWithinTtl /\ c_call.url = url
                     => c_call.result = Some(last_put[url].data)

\* a get returns the payload of a put whose file was not opened, while the file still
\* holds an older payload, another one, that has not expired
C22_Witness ==
    /\ GetWithinTtl /\ FailedWriteInProcess(c_call.url)
    /\ c_call.result = Some(last_put[c_call.url].data)
    /\ FileHit(get_cache_key(c_call.url))
    /\ FileRecord(get_cache_key(c_call.url))[1].data.entries # last_put[c_call.url].data.entries
    /\ Len(FileRecord(get_cache_key(c_call.url))[1].data.entries)
          # Len(last_put[c_call.url].data.entries)

\* after a restart the older payload of the file is what a get returns
OlderPayloadAfterRestart ==
    /\ GetWithinTtl /\ c_call.result # None
    /\ last_put[c_call.url].write = "not opened" /\ last_put[c_call.url].restarted
    /\ Len(c_call.result[1].entries) # Len(last_put[c_call.url].data.entries)

------------------------------------------------------------------------------
\* the step changes one of the two cache tiers
CacheChanges ==
    \/ cache' # cache \/ cache_expiry' # cache_expiry \/ cache_files' # cache_files

\* the step is the answer, with status 200 and a feed, to a request of task t
RequestAnswered(t) == attempts'[t] = Append(attempts[t], "ok")

\* the step is the cache lookup of task t finding its payload
ServedFromCache(t) == t_pc[t] = "start" /\ t_pc'[t] = "returned"

\* the payloads the two tiers hold
CachedPayloads ==
    { cache[key] : key \in DOMAIN cache }
        \cup { FileRecord(key)[1].data : key \in { k \in DOMAIN cache_files : FileRecord(k) # None } }

\* the dict is the result of an answered request (lines 150-155), which has the feed's
\* info, and not the dict of lines 178 and 182, which has none
IsFetchedResult(data) == "feed_info" \in DOMAIN data

\* C23: the cache tiers change only in a step that is a successful attempt, which puts
\* its result, or a lookup that promotes a file record; a failed attempt, the last one
\* included, leaves both tiers as they were; no payload in the cache is the empty
\* result of a failed fetch, and none is returned by a lookup.
C23_OnlySuccessIsCached ==
    /\ [][ CacheChanges
              => \E t \in FetchTasks :
                    \/ RequestAnswered(t) /\ cache'[get_cache_key(Sources[t].url)] = t_result'[t][1]
                    \/ ServedFromCache(t) /\ cache_files' = cache_files ]_vars
    /\ [](\A data \in CachedPayloads : IsFetchedResult(data))
    /\ [](\A t \in FetchTasks :
            t_pc[t] = "returned" /\ attempts[t] = <<>> => IsFetchedResult(t_result[t][1]))

\* the first source's fetch has failed on all four requests and the expired file an
\* earlier run left for its URL is still all the cache holds
C23_Witness ==
    /\ t_pc[1] = "returned" /\ OnlyRetryableFailures(1)
    /\ t_result[1] = Some(EmptyResult(Sources[1]))
    /\ cache_files \in EarlierCacheFiles /\ cache_files # EmptyDict
    /\ cache = EmptyDict

------------------------------------------------------------------------------
\* the lookup of task t would find a payload that has not expired
CacheHolds(t) == get_cached_response(Sources[t].url) # None

\* C24: a fetch whose URL has a cache entry that has not expired returns the cached
\* payload, takes no permit and sends no request; a task asks for a permit only after
\* its lookup found nothing, and sends requests only once it has the permit.
C24_CacheBeforeNetwork ==
    /\ [][ \A t \in FetchTasks :
             /\ t_pc[t] = "start" /\ CacheHolds(t) /\ t_pc'[t] # "start"
                   => /\ t_pc'[t] = "returned"
                      /\ t_result'[t] = get_cached_response(Sources[t].url)
                      /\ permits' = permits
                      /\ attempts'[t] = <<>>
             /\ t_pc[t] = "start" /\ t_pc'[t] = "acquire" => ~CacheHolds(t)
             /\ attempts'[t] # attempts[t] => t_pc[t] = "request"
             /\ t_pc'[t] = "request" /\ t_pc[t] # "request" => t_pc[t] \in {"acquire", "sleep"}
             /\ t_pc'[t] = "acquire" /\ t_pc[t] # "acquire" => t_pc[t] = "start" ]_vars
    /\ [](\A t \in FetchTasks : t_pc[t] \in {"start", "acquire"} => attempts[t] = <<>>)

\* the first feed was served from the file of an earlier run: no request sent, all
\* permits free, while the second feed is at its requests
C24_Witness ==
    /\ t_pc[1] = "returned" /\ attempts[1] = <<>>
    /\ t_result[1] # None /\ IsFetchedResult(t_result[1][1])
    /\ t_pc[2] = "start" /\ permits = MAX_CONCURRENT_REQUESTS

------------------------------------------------------------------------------
\* C25: a request that ends in an unexpected exception is the task's last: the task
\* has returned, with an empty entries list, without a backoff and whatever number of
\* retries was left, the exception itself counting for none.
C25_UnexpectedErrorEndsFetch ==
    \A t \in FetchTasks :
        \A k \in DOMAIN attempts[t] :
            attempts[t][k] = "unexpected"
                => /\ k = Len(attempts[t])
                   /\ t_pc[t] = "returned"
                   /\ t_result[t] = Some(EmptyResult(Sources[t]))
                   /\ retries[t] = k - 1
                   /\ last_exception[t] = Some("unexpected")

\* the first feed's second request raised an unexpected exception after one retryable
\* failure, with two retries left, and the fetch is over
C25_Witness ==
    /\ attempts[1] = <<"retryable", "unexpected">>
    /\ t_pc[1] = "returned" /\ retries[1] = 1 /\ MayRetry(retries[1] + 1)
    /\ t_result[1] = Some(EmptyResult(Sources[1]))

------------------------------------------------------------------------------
\* the items returned that have no publish timestamp
Undated(items) == { i \in 1..Len(items) : items[i].published_datetime = None }

\* C26: an item without a parsed publish timestamp has a recency contribution of 0:
\* its composite score is its relevance contribution plus its trusted-source bonus,
\* no more and no less.
C26_NoDateNoRecencyPoints ==
    Returned =>
        \A i \in Undated(Result) :
            /\ Result[i].relevance_score = RelevancePoints(Result[i]) + TrustedPoints(Result[i])
            /\ Result[i].relevance_score >= RelevancePoints(Result[i])

\* an item without a date is returned, with points for its title, beside a dated one
C26_Witness ==
    /\ Returned
    /\ \E i \in Undated(Result) :
          /\ RelevancePoints(Result[i]) > 0
          /\ Result[i].relevance_score > 0
    /\ Undated(Result) # 1..Len(Result)

------------------------------------------------------------------------------
(* fetch_all_feeds on one feed more than there are permits, under the       *)
(* scheduling the code relies on: the event loop runs a task that is ready, *)
(* and a request sent is answered, refused, or ends in an exception or a    *)
(* timeout, so a step that can be taken is not put off for ever.            *)

RequestRaises(t) == t \in UnreliableTasks /\ AttemptRaises(t)

WholeRunNext ==
    \/ \E t \in ManyTasks : TaskStarts(t)
    \/ \E t \in ManyTasks : TaskGetsPermit(t)
    \/ \E t \in ManyTasks : AttemptSucceeds(t, "written")
    \/ \E t \in ManyTasks : RequestRefused(t)
    \/ \E t \in ManyTasks : RequestRaises(t)
    \/ \E t \in ManyTasks : BackoffEnds(t)
    \/ Gather

SpecWholeRun == ManyFeedsInit /\ [][WholeRunNext]_vars /\ WF_vars(WholeRunNext)

\* the task created last, the one that finds the ten permits taken
LastTask == MAX_CONCURRENT_REQUESTS + 1

\* C27: a run of more feeds than permits ends, fetch_all_feeds returning the gathered
\* results; the task that has to wait for a permit gets one, and every task
\* has sent a request by the time it returns, so each had a permit; the permits free
\* and the permits held always add up to 10, each task leaving the semaphore block
\* (by success, by its last failure, by an unexpected error) giving its permit back;
\* and once the results are gathered all 10 permits are free.
C27_RunEndsWithAllPermitsFree ==
    /\ <>(feed_results # None)
    /\ (t_pc[LastTask] = "acquire") ~> (t_pc[LastTask] = "request")
    /\ [](\A t \in ManyTasks : t_pc[t] = "returned" => attempts[t] # <<>>)
    /\ [](permits + Cardinality(PermitHolders) = MAX_CONCURRENT_REQUESTS)
    /\ [](feed_results # None
            => permits = MAX_CONCURRENT_REQUESTS /\ \A t \in ManyTasks : t_pc[t] = "returned")

\* the run is over, the first feed having ended by an unexpected error after a refusal
\* while the eleventh feed had to wait for a permit and got its entries
C27_Witness ==
    /\ feed_results # None /\ permits = MAX_CONCURRENT_REQUESTS
    /\ attempts[1] = <<"retryable", "unexpected">>
    /\ attempts[LastTask] = <<"ok">>

------------------------------------------------------------------------------
(* A run whose first source has a URL that an earlier run fetched under     *)
(* another name: get_ai_news takes the sources as a parameter (main.py,     *)
(* line 71), and the cache file is kept under the md5 of the URL alone.     *)

\* the name FeedUrlA had in the configuration of the earlier run
EarlierName == "AI Weekly"

\* the cache file the earlier run left for FeedUrlA, still valid
EarlierConfigurationFiles ==
    { Store(EmptyDict, get_cache_key(FeedUrlA),
            Written(json_dump([data |-> FeedResult(<<UndatedEntry>>, EarlierName, FeedUrlA),
                               expiry |-> expiry, url |-> FeedUrlA]))) :
        expiry \in {ClockStep, 2 * ClockStep} }

RenamedSourceInit ==
    /\ t_pc = [t \in FetchTasks |-> "start"]
    /\ retries = [t \in FetchTasks |-> 0]
    /\ last_exception = [t \in FetchTasks |-> None]
    /\ attempts = [t \in FetchTasks |-> <<>>]
    /\ t_result = [t \in FetchTasks |-> None]
    /\ permits = MAX_CONCURRENT_REQUESTS
    /\ feed_results = None
    /\ cache = EmptyDict /\ cache_expiry = EmptyDict
    /\ cache_files \in EarlierConfigurationFiles
    /\ now = 0 /\ c_call = NoCall /\ last_put = EmptyDict
    /\ ScoreIdle /\ PipeIdle /\ RunIdle /\ MainIdle

SpecRenamedSource == RenamedSourceInit /\ [][FetchNext]_vars

\* the names of the sources the run was started for
ConfiguredNames == { Sources[t].name : t \in FetchTasks }

\* C28: the feed result fetch_rss_feed returns for a source carries that source's own
\* name and url, also when it comes from the cache, and every item get_ai_news returns
\* has the name of a configured source as its feed_name.
C28_ResultCarriesOwnSource ==
    /\ \A t \in FetchTasks :
          t_pc[t] = "returned"
             => t_result[t][1].name = Sources[t].name /\ t_result[t][1].url = Sources[t].url
    /\ news_items # None /\ news_items[1].exception = ""
          => \A i \in DOMAIN news_items[1].value :
                news_items[1].value[i].feed_name \in ConfiguredNames

\* the url of a returned feed result is always the source's own: the cache is keyed by it
ResultCarriesOwnUrl ==
    \A t \in FetchTasks : t_pc[t] = "returned" => t_result[t][1].url = Sources[t].url

\* get_ai_news has returned an item whose feed_name is the earlier name of the URL
ItemUnderEarlierName ==
    /\ news_items # None /\ news_items[1].exception = ""
    /\ \E i \in DOMAIN news_items[1].value : news_items[1].value[i].feed_name = EarlierName

------------------------------------------------------------------------------
\* what the publish timestamp added to the score of a returned item
RecencyContribution(item) ==
    item.relevance_score - RelevancePoints(item) - TrustedPoints(item)

\* the hours between the publish timestamp of a dated item and the ranking
AgeHours(item) == item.published_datetime[1].age

\* C29: for every returned item and every publish timestamp, in the past or later than
\* the time of ranking, the recency contribution lies between 0 and 30 points: at most
\* 30 under 24 hours of age, at most 15 from 24 to 72 hours, 0 for older items.
C29_RecencyBetween0And30 ==
    Returned =>
        \A i \in 1..Len(Result) :
            /\ RecencyContribution(Result[i]) >= 0
            /\ RecencyContribution(Result[i]) <= 30 * OnePoint
            /\ i \notin Undated(Result) /\ AgeHours(Result[i]) >= 24
                  => RecencyContribution(Result[i]) <= 15 * OnePoint
            /\ i \notin Undated(Result) /\ AgeHours(Result[i]) >= 72
                  => RecencyContribution(Result[i]) = 0

\* the bounds hold for the items published at or before the time of ranking; an item
\* published later gets 30 points and 1.25 more for each hour it lies ahead
RecencyBoundedForPastDates ==
    Returned =>
        \A i \in (1..Len(Result)) \ Undated(Result) :
            IF AgeHours(Result[i]) >= 0
            THEN /\ RecencyContribution(Result[i]) \in 0..(30 * OnePoint)
                 /\ AgeHours(Result[i]) >= 24 => RecencyContribution(Result[i]) <= 15 * OnePoint
                 /\ AgeHours(Result[i]) >= 72 => RecencyContribution(Result[i]) = 0
            ELSE RecencyContribution(Result[i]) = 30 * OnePoint - AgeHours(Result[i]) * 20

\* an item dated 8 hours ahead of the ranking is returned with 40 recency points
FutureDatedAboveThirty ==
    /\ Returned
    /\ \E i \in (1..Len(Result)) \ Undated(Result) :
          /\ AgeHours(Result[i]) = -8
          /\ RecencyContribution(Result[i]) = 40 * OnePoint
====
